---- MODULE Spec2Model ----
(***************************************************************************)
(* dnsacmed: the credential store with its two-slot TXT rotation           *)
(* (pkg/db), the access-control model (pkg/model), the HTTP API with its   *)
(* auth gate and handlers (pkg/api) and the DNS server (pkg/dns), as a     *)
(* state machine.                                                          *)
(*                                                                         *)
(* Strings are atoms; the standard library's parsers (net.ParseIP,         *)
(* net.ParseCIDR, net.SplitHostPort, uuid.Parse, the regexp engine) are    *)
(* tables over the atoms the model uses, and the repository's own code     *)
(* (loops, filters, branches, statements) is translated on top of them.    *)
(***************************************************************************)
EXTENDS Integers, Sequences, FiniteSets, TLC

(***************************************************************************)
(* Bounds of the model.                                                    *)
(***************************************************************************)
\* the clock runs from 1 to MaxTime (seconds, time.Now().Unix())
MaxTime == 2
\* at most this many Update calls are started in one behaviour of the
\* rotation specification
MaxUpdates == 3
\* at most this many Update calls are started in one behaviour of the
\* specification of all four store operations
MaxStoreUpdates == 1

Workers == {"w1", "w2"}
None == "none"

(***************************************************************************)
(* The values the random generators and the callers draw from.             *)
(***************************************************************************)
\* uuid.New() for Username
UUIDs == {"u1", "u2"}
\* uuid.New().String() for Subdomain
SubPool == {"s1", "s2"}
\* what NewACMETxt draws: a fresh Username, Subdomain and password each time
Identities == {<<"u1", "s1", "k1">>, <<"u2", "s2", "k2">>}
\* the distinct challenge values of the Update calls, in call order
TXTS == <<"txt1", "txt2", "txt3", "txt4", "txt5", "txt6">>
\* an allowfrom entry given to Register
NetA == "10.0.0.0/24"
Engines == {"sqlite3", "postgres"}

VARIABLES
    engine,   \* acmedb.engine
    records,  \* table records: the committed credential rows
    txt,      \* table txt: the committed slot rows, in rowid order
    mutex,    \* acmedb.Mutex: the worker holding it, or None
    now,      \* the wall clock in seconds
    pc,       \* per worker: idle, lock (waiting for the mutex), locked, ret
    op,       \* per worker: the store operation it is in
    arg,      \* per worker: the operation's argument
    ret,      \* per worker: the operation's result
    nUpd,     \* number of Update calls started
    hist,     \* per subdomain: the values of the last two Updates that wrote
    issued,   \* the registrations that Register returned without an error
    useHeader,\* Config.UseHeader of the HTTP API
    hpc,      \* the /update request: idle, auth, handler, done
    req,      \* the request being served
    resp,     \* the response written
    ctx,      \* the ACMETxt the middleware hands to the update handler
    ncmp,     \* the hashes CorrectPassword was called with for this request
    upds,     \* the errors the calls of db.Update returned for this request
    gate,     \* the steps of the middleware the request has gone through
    why,      \* the branch of the middleware that rejected the request
    snap,     \* the tables as they were when the request arrived
    prevRej,  \* cause and response of the rejection before this request
    aclIn,    \* the arguments of an allow-list check
    aclOut,   \* its results
    keyAuth,  \* DNSServer.PersonalKeyAuth
    dnsQ,     \* the DNS message handleRequest is called with
    dnsR      \* the DNS message it writes

storeVars == <<engine, records, txt, mutex, now>>
procVars == <<pc, op, arg, ret>>
ghostVars == <<nUpd, hist, issued>>
httpVars ==
    <<useHeader, hpc, req, resp, ctx, ncmp, upds, gate, why, snap, prevRej>>
aclVars == <<aclIn, aclOut>>
dnsVars == <<keyAuth, dnsQ, dnsR>>
vars == <<engine, records, txt, mutex, now, pc, op, arg, ret, nUpd, hist, issued,
          useHeader, hpc, req, resp, ctx, ncmp, upds, gate, why, snap,
          prevRej, aclIn, aclOut, keyAuth, dnsQ, dnsR>>

(***************************************************************************)
(* Sequences helpers.                                                      *)
(***************************************************************************)
Range(s) == {s[i] : i \in DOMAIN s}

RECURSIVE SelectIdx(_, _, _)
\* the indices i >= from of t whose row is of subdomain sub, ascending
SelectIdx(t, sub, from) ==
    IF from > Len(t) THEN <<>>
    ELSE IF t[from].Subdomain = sub
         THEN <<from>> \o SelectIdx(t, sub, from + 1)
         ELSE SelectIdx(t, sub, from + 1)

Take(s, n) == IF Len(s) <= n THEN s ELSE SubSeq(s, 1, n)

LastTwo(s) == IF Len(s) <= 2 THEN s ELSE SubSeq(s, Len(s) - 1, Len(s))

(***************************************************************************)
(* pkg/model: strings.                                                     *)
(***************************************************************************)
\* what the regexp [^A-Za-z\-\_0-9]+ removes from the strings of the model:
\* "k40x" is a key of 40 runes one of which is outside the alphabet, "txt43x"
\* a challenge value of 43 runes one of which is outside the alphabet
SanitizeTable ==
    [x \in {"example.com", "s1.auth.example.org.", "k40x", ".", "txt43x",
            "s1!"} |->
        CASE x = "example.com" -> "examplecom"
          [] x = "s1!" -> "s1"
          [] x = "." -> ""
          [] x = "s1.auth.example.org." -> "s1authexampleorg"
          [] x = "k40x" -> "k39"
          [] x = "txt43x" -> "txt42"]

SanitizeString(s) == IF s \in DOMAIN SanitizeTable THEN SanitizeTable[s] ELSE s

\* utf8.RuneCountInString on the strings of the model: generated keys have 40
\* runes, challenge values 43; "txt42" and "txt44" are one rune short and one
\* rune long
RuneCountInString(s) ==
    CASE s \in {"k1", "k2", "k40x"} -> 40
      [] s = "k39" -> 39
      [] s \in {TXTS[i] : i \in DOMAIN TXTS} \cup {"txt43x"} -> 43
      [] s = "txt42" -> 42
      [] s = "txt44" -> 44
      [] OTHER -> 0

(***************************************************************************)
(* pkg/model: addresses and networks. An IP is its sequence of octets, the *)
(* nil IP the empty sequence; a network is an IP and a prefix length.      *)
(***************************************************************************)
NilIP == <<>>
Loopback6 == [i \in 1..16 |-> IF i = 16 THEN 1 ELSE 0]

\* net.ParseIP
ParseIP(s) ==
    CASE s = "10.0.0.5" -> <<10, 0, 0, 5>>
      [] s = "10.0.1.5" -> <<10, 0, 1, 5>>
      [] s = "192.168.1.2" -> <<192, 168, 1, 2>>
      [] s = "::1" -> Loopback6
      [] OTHER -> NilIP

\* net.ParseCIDR: the network of a CIDR string, or an error
ParseCIDR(s) ==
    CASE s = "10.0.0.0/24" -> [IP |-> <<10, 0, 0, 0>>, Bits |-> 24, err |-> None]
      [] s = "10.0.1.0/25" -> [IP |-> <<10, 0, 1, 0>>, Bits |-> 25, err |-> None]
      [] s = "192.168.1.2/32" ->
            [IP |-> <<192, 168, 1, 2>>, Bits |-> 32, err |-> None]
      [] s = "::1/128" -> [IP |-> Loopback6, Bits |-> 128, err |-> None]
      [] OTHER -> [IP |-> NilIP, Bits |-> 0, err |-> "invalid CIDR address"]

RECURSIVE Pow2(_)
Pow2(n) == IF n = 0 THEN 1 ELSE 2 * Pow2(n - 1)

\* the bits of octet i that a prefix of the given length covers
MaskBits(bits, i) ==
    LET left == bits - 8 * (i - 1)
    IN  IF left >= 8 THEN 8 ELSE IF left <= 0 THEN 0 ELSE left

\* octet & mask
Masked(octet, m) == octet - (octet % Pow2(8 - m))

\* a containment test that compares the lengths only
IPNetSameLength(n, ip) == Len(ip) = Len(n.IP)

\* net.IPNet.Contains: false for an IP of another length (the nil IP too)
IPNetContains(n, ip) ==
    /\ Len(ip) = Len(n.IP)
    /\ \A i \in DOMAIN ip :
          Masked(ip[i], MaskBits(n.Bits, i)) = Masked(n.IP[i], MaskBits(n.Bits, i))

\* the regexp [\[\]]+ removed: brackets around an IPv6 address
sanitizeIPv6addr(s) == IF s = "[::1]/128" THEN "::1/128" ELSE s

canonicalizeIPv6Addr(s) == IF s = "[::1]/128" THEN "::1/128" ELSE s

\* CIDRSlice.ValidEntries: the entries that parse, brackets removed
ValidEntries(c) ==
    LET ok(v) == ParseCIDR(sanitizeIPv6addr(v)).err = None
        valid == SelectSeq(c, ok)
    IN  [i \in DOMAIN valid |-> sanitizeIPv6addr(valid[i])]

\* ACMETxt.IsAllowedFrom on the AllowFrom list of the user
IsAllowedFrom(allowFrom, ip) ==
    LET remoteIP == ParseIP(ip)
        valid == ValidEntries(allowFrom)
    IN  IF Len(valid) = 0 THEN TRUE
        ELSE \E i \in DOMAIN valid : IPNetContains(ParseCIDR(valid[i]), remoteIP)

\* a check of the candidates alone, without the case of an empty list
AnyAllowedFrom(allowFrom, ips) ==
    \E i \in DOMAIN ips : IsAllowedFrom(allowFrom, ips[i])

\* ACMETxt.IsAllowedFromList
IsAllowedFromList(allowFrom, ips) ==
    IF Len(ips) = 0 THEN IsAllowedFrom(allowFrom, "")
    ELSE \E i \in DOMAIN ips : IsAllowedFrom(allowFrom, ips[i])

\* ParseCIDRSlice: the networks of the entries that parse, and the first error
ParseCIDRSlice(cidrs) ==
    LET ok(v) == ParseCIDR(canonicalizeIPv6Addr(v)).err = None
        bad(v) == ~ok(v)
        valid == SelectSeq(cidrs, ok)
    IN  [nets |-> [i \in DOMAIN valid |->
                     ParseCIDR(canonicalizeIPv6Addr(valid[i]))],
         err |-> IF SelectSeq(cidrs, bad) = <<>> THEN None
                 ELSE "Invalid CIDR string"]

\* CIDRSlice.Contains of the parsed slice
Contains(c, ip) ==
    IF Len(c) = 0 THEN TRUE
    ELSE \E i \in DOMAIN c : IPNetContains(c[i], ip)

\* CIDRSlice.ContainsAny of the parsed slice
ContainsAny(c, ips) ==
    IF Len(ips) = 0 THEN Len(c) = 0
    ELSE \E i \in DOMAIN ips : Contains(c, ips[i])

(***************************************************************************)
(* pkg/db: the transaction of Register.                                    *)
(***************************************************************************)
NewACMETxt(u, p, s) ==
    [Username |-> u, Password |-> p, Subdomain |-> s, AllowFrom |-> <<>>]

\* bcrypt.GenerateFromPassword / bcrypt.CompareHashAndPassword
Hash(p) == <<"bcrypt", p>>

CorrectPassword(pw, hash) == hash = Hash(pw)

\* sql.Tx: the rows written so far and whether the engine has aborted it
TxBegin(recs, t) == [records |-> recs, txt |-> t, aborted |-> FALSE]

\* a failed statement aborts a PostgreSQL transaction, not an SQLite one
TxFail(tx, eng) == IF eng = "postgres" THEN [tx EXCEPT !.aborted = TRUE] ELSE tx

\* a table records whose only constraint is the primary key
UniqueViolationOfKey(recs, row) == \E r \in recs : r.Username = row.Username

\* the UNIQUE constraints of table records
UniqueViolation(recs, row) ==
    \E r \in recs : \/ r.Username = row.Username
                    \/ r.Password = row.Password
                    \/ r.Subdomain = row.Subdomain

\* tx.Exec of one INSERT INTO txt (Subdomain, LastUpdate) values(sub, 0)
TxInsertTXT(tx, eng, sub, fail) ==
    IF fail \/ tx.aborted THEN TxFail(tx, eng)
    ELSE [tx EXCEPT !.txt =
            Append(@, [Subdomain |-> sub, Value |-> "", LastUpdate |-> 0])]

\* two INSERTs whose errors are dropped; the error returned is always nil
NewTXTValuesInTransaction(tx, eng, sub, fail1, fail2) ==
    [tx |-> TxInsertTXT(TxInsertTXT(tx, eng, sub, fail1), eng, sub, fail2),
     err |-> None]

\* the deferred function: Rollback if err is set, Commit if not; a Commit of
\* an aborted transaction writes nothing
TxEnd(recs, t, tx, err) ==
    IF err # None \/ tx.aborted
    THEN [records |-> recs, txt |-> t]
    ELSE [records |-> tx.records, txt |-> tx.txt]

\* Register between Lock and Unlock. a is the generated registration, f the
\* statements that fail: f.prepare, f.cred, f.slot1, f.slot2.
RegisterTx(recs, t, eng, a, f) ==
    LET tx0 == TxBegin(recs, t)
        row == [Username |-> a.Username, Password |-> Hash(a.Password),
                Subdomain |-> a.Subdomain, AllowFrom |-> a.AllowFrom]
    IN  IF f.prepare
        THEN [db |-> TxEnd(recs, t, tx0, "SQL error"), err |-> "SQL error"]
        ELSE IF f.cred \/ UniqueViolation(recs, row)
        THEN [db |-> TxEnd(recs, t, TxFail(tx0, eng), "exec error"),
              err |-> "exec error"]
        ELSE LET tx1 == [tx0 EXCEPT !.records = @ \cup {row}]
                 r == NewTXTValuesInTransaction(tx1, eng, a.Subdomain,
                                                f.slot1, f.slot2)
             IN  [db |-> TxEnd(recs, t, r.tx, r.err), err |-> r.err]

(***************************************************************************)
(* pkg/db: the queries.                                                    *)
(***************************************************************************)
\* SELECT ... FROM records WHERE Username=u LIMIT 1; "no user" without a row
GetByUsernameQuery(recs, u, fail) ==
    IF fail THEN [user |-> None, err |-> "query error"]
    ELSE IF \E r \in recs : r.Username = u
         THEN [user |-> CHOOSE r \in recs : r.Username = u, err |-> None]
         ELSE [user |-> None, err |-> "no user"]

\* a query that reports the absence of rows as an error
GetTXTForDomainQueryRow(t, domain, fail) ==
    IF fail THEN [txts |-> <<>>, err |-> "query error"]
    ELSE LET idx == Take(SelectIdx(t, SanitizeString(domain), 1), 2)
         IN  IF idx = <<>> THEN [txts |-> <<>>, err |-> "no rows"]
             ELSE [txts |-> [i \in DOMAIN idx |-> t[idx[i]].Value],
                   err |-> None]

\* SELECT Value FROM txt WHERE Subdomain=domain LIMIT 2, domain sanitized
GetTXTForDomainQuery(t, domain, fail) ==
    IF fail THEN [txts |-> <<>>, err |-> "query error"]
    ELSE LET idx == Take(SelectIdx(t, SanitizeString(domain), 1), 2)
         IN  [txts |-> [i \in DOMAIN idx |-> t[idx[i]].Value], err |-> None]

\* a subquery without the WHERE clause: the oldest rows of the whole table
OldestRowsOfTable(t, sub) ==
    {i \in DOMAIN t : \A j \in DOMAIN t : t[i].LastUpdate <= t[j].LastUpdate}

\* SELECT rowid FROM txt WHERE Subdomain=sub ORDER BY LastUpdate LIMIT 1:
\* the rows the engine may return, any row of the smallest LastUpdate (the
\* statement gives no second sort key)
OldestRows(t, sub) ==
    {i \in DOMAIN t :
        /\ t[i].Subdomain = sub
        /\ \A j \in DOMAIN t :
              t[j].Subdomain = sub => t[i].LastUpdate <= t[j].LastUpdate}

\* an UPDATE of every row of the subdomain of row i
UpdateRowsOfSubdomain(t, i, value, timenow) ==
    [j \in DOMAIN t |->
        IF t[j].Subdomain = t[i].Subdomain
        THEN [t[j] EXCEPT !.Value = value, !.LastUpdate = timenow]
        ELSE t[j]]

\* an UPDATE that empties a slot which held a value
UpdateRowOrClear(t, i, value, timenow) ==
    [t EXCEPT ![i] = [@ EXCEPT !.Value = IF @ = "" THEN value ELSE "",
                               !.LastUpdate = timenow]]

\* UPDATE txt SET Value, LastUpdate WHERE rowid=i
UpdateRow(t, i, value, timenow) ==
    [t EXCEPT ![i] = [@ EXCEPT !.Value = value, !.LastUpdate = timenow]]

(***************************************************************************)
(* The answer a TXT query builds from the slots: the non-empty values.     *)
(***************************************************************************)
NonEmpty(txts) == {txts[i] : i \in DOMAIN txts} \ {""}

GetChallengeValues(t, sub) == NonEmpty(GetTXTForDomainQuery(t, sub, FALSE).txts)

SlotRows(t, sub) == {i \in DOMAIN t : t[i].Subdomain = sub}

(***************************************************************************)
(* Initial state: NewACMEDB on an empty database.                          *)
(***************************************************************************)
Idle == [w \in Workers |-> "idle"]

\* no request in hand, and so no snapshot of the tables it found
NoRequest == [idle |-> TRUE]

\* the headers of a response that the handlers of /update set
NoHeader == [ContentType |-> "", Allow |-> ""]

\* nothing written to the http.ResponseWriter
NoResponse == [status |-> 0, header |-> NoHeader, body |-> ""]

\* no rejection so far
NoRejection == [cause |-> None, resp |-> NoResponse]

\* no ACMETxt in the request's context: next has not been called
NoContext ==
    [Username |-> None, Password |-> None, Subdomain |-> "", Value |-> ""]

\* no allow-list check made
NoCheck ==
    [done |-> FALSE, allowed |-> FALSE, contains |-> FALSE,
     allowedList |-> FALSE, containsAny |-> FALSE, iplist |-> <<>>,
     fromHeader |-> FALSE]

\* no DNS message in hand
NoMsg ==
    [Response |-> FALSE, Opcode |-> "", Rcode |-> 0, Authoritative |-> FALSE,
     Question |-> <<>>, Answer |-> <<>>, Ns |-> <<>>, Extra |-> <<>>,
     reads |-> 0]

\* the DNS server as NewDNSServer leaves it, with no request in hand
DNSIdle ==
    /\ keyAuth = ""
    /\ dnsQ = NoMsg
    /\ dnsR = NoMsg

\* no /update request is being served
HTTPIdle ==
    /\ hpc = "idle"
    /\ req = NoRequest
    /\ resp = NoResponse
    /\ ctx = NoContext
    /\ ncmp = <<>>
    /\ upds = <<>>
    /\ gate = <<>>
    /\ why = None
    /\ snap = NoRequest

NoneOf == [w \in Workers |-> None]

\* no call of the store in progress: no argument, no result
NoCall == [idle |-> TRUE]

NoCallOf == [w \in Workers |-> NoCall]

Init ==
    /\ engine \in Engines
    /\ records = {}
    /\ txt = <<>>
    /\ mutex = None
    /\ now = 1
    /\ pc = Idle
    /\ op = NoneOf
    /\ arg = NoCallOf
    /\ ret = NoCallOf
    /\ nUpd = 0
    /\ hist = [s \in SubPool |-> <<>>]
    /\ issued = {}
    /\ useHeader = FALSE
    /\ HTTPIdle
    /\ prevRej = NoRejection
    /\ aclIn = None
    /\ aclOut = NoCheck
    /\ DNSIdle

(***************************************************************************)
(* A worker calls a store operation.                                       *)
(***************************************************************************)
Call(w, o, a) ==
    /\ pc[w] = "idle"
    /\ pc' = [pc EXCEPT ![w] = "lock"]
    /\ op' = [op EXCEPT ![w] = o]
    /\ arg' = [arg EXCEPT ![w] = a]
    /\ UNCHANGED <<ret, httpVars, aclVars, dnsVars>>

CallRegister(w, afrom) ==
    /\ Call(w, "Register", [AllowFrom |-> afrom])
    /\ UNCHANGED <<storeVars, ghostVars>>

CallGetByUsername(w, u) ==
    /\ Call(w, "GetByUsername", [Username |-> u])
    /\ UNCHANGED <<storeVars, ghostVars>>

CallGetTXTForDomain(w, d) ==
    /\ Call(w, "GetTXTForDomain", [Domain |-> d])
    /\ UNCHANGED <<storeVars, ghostVars>>

\* an Update in flight of another worker for the same subdomain
InFlight(w, sub) ==
    \E v \in Workers \ {w} :
        /\ op[v] = "Update"
        /\ pc[v] \in {"lock", "locked"}
        /\ arg[v].Subdomain = sub

CallUpdate(w, sub, max) ==
    /\ nUpd < max
    /\ nUpd' = nUpd + 1
    /\ Call(w, "Update", [Subdomain |-> sub, Value |-> TXTS[nUpd + 1],
                          conc |-> InFlight(w, sub)])
    /\ UNCHANGED <<storeVars, hist, issued>>

(***************************************************************************)
(* d.Lock() ... defer d.Unlock()                                           *)
(***************************************************************************)
\* a lock that does not wait for the holder
LockNoCheck(w) ==
    /\ pc[w] = "lock"
    /\ mutex' = w
    /\ pc' = [pc EXCEPT ![w] = "locked"]
    /\ UNCHANGED <<engine, records, txt, now, op, arg, ret, ghostVars,
                   httpVars, aclVars, dnsVars>>

Lock(w) ==
    /\ pc[w] = "lock"
    /\ mutex = None
    /\ mutex' = w
    /\ pc' = [pc EXCEPT ![w] = "locked"]
    /\ UNCHANGED <<engine, records, txt, now, op, arg, ret, ghostVars,
                   httpVars, aclVars, dnsVars>>

\* an Unlock that is skipped on the error returns
UnlockOnSuccess(w, result) ==
    /\ mutex' = IF result.err = None THEN None ELSE mutex
    /\ pc' = [pc EXCEPT ![w] = "ret"]
    /\ ret' = [ret EXCEPT ![w] = result]
    /\ UNCHANGED <<engine, now, op, arg, httpVars, aclVars, dnsVars>>

\* the return of an operation: Unlock, and the result handed to the caller
Unlock(w, result) ==
    /\ mutex' = None
    /\ pc' = [pc EXCEPT ![w] = "ret"]
    /\ ret' = [ret EXCEPT ![w] = result]
    /\ UNCHANGED <<engine, now, op, arg, httpVars, aclVars, dnsVars>>

\* Register between Lock and Unlock: u, p, s are what NewACMETxt generates
\* and f names the statements that fail; the result also notes whether the
\* call changed the committed tables
Register(w, u, p, s, f) ==
    /\ pc[w] = "locked" /\ op[w] = "Register"
    /\ LET a == [NewACMETxt(u, p, s) EXCEPT !.AllowFrom = arg[w].AllowFrom]
           r == RegisterTx(records, txt, engine, a, f)
       IN  /\ records' = r.db.records
           /\ txt' = r.db.txt
           /\ Unlock(w, [user |-> a, err |-> r.err,
                         stored |-> r.db # [records |-> records, txt |-> txt]])
           /\ issued' = IF r.err = None THEN issued \cup {<<u, s, p>>}
                                        ELSE issued
    /\ UNCHANGED <<nUpd, hist>>

GetByUsername(w, fail) ==
    /\ pc[w] = "locked" /\ op[w] = "GetByUsername"
    /\ Unlock(w, GetByUsernameQuery(records, arg[w].Username, fail))
    /\ UNCHANGED <<records, txt, ghostVars>>

GetTXTForDomain(w, fail) ==
    /\ pc[w] = "locked" /\ op[w] = "GetTXTForDomain"
    /\ Unlock(w, GetTXTForDomainQuery(txt, arg[w].Domain, fail))
    /\ UNCHANGED <<records, txt, ghostVars>>

\* Update between Lock and Unlock: one UPDATE statement with timenow
Update(w) ==
    /\ pc[w] = "locked" /\ op[w] = "Update"
    /\ LET a == arg[w] IN
       \/ \* Prepare or Exec fails
          /\ Unlock(w, [err |-> "exec error"])
          /\ UNCHANGED <<records, txt, ghostVars>>
       \/ \* no row of the subdomain: the statement matches nothing
          /\ OldestRows(txt, a.Subdomain) = {}
          /\ Unlock(w, [err |-> None])
          /\ UNCHANGED <<records, txt, ghostVars>>
       \/ \E i \in OldestRows(txt, a.Subdomain) :
             /\ txt' = UpdateRow(txt, i, a.Value, now)
             /\ Unlock(w, [err |-> None])
             /\ hist' = [hist EXCEPT ![a.Subdomain] = LastTwo(Append(@, a.Value))]
             /\ UNCHANGED <<records, nUpd, issued>>

\* the caller takes the result
Return(w) ==
    /\ pc[w] = "ret"
    /\ pc' = [pc EXCEPT ![w] = "idle"]
    /\ op' = [op EXCEPT ![w] = None]
    /\ arg' = [arg EXCEPT ![w] = NoCall]
    /\ ret' = [ret EXCEPT ![w] = NoCall]
    /\ UNCHANGED <<storeVars, ghostVars, httpVars, aclVars, dnsVars>>

Tick ==
    /\ now < MaxTime
    /\ now' = now + 1
    /\ UNCHANGED <<engine, records, txt, mutex, procVars, ghostVars,
                   httpVars, aclVars, dnsVars>>

\* the statements of Register that fail: none, or Prepare, or the INSERT
\* INTO records, or one or both of the INSERTs INTO txt
Failures ==
    {f \in [prepare : BOOLEAN, cred : BOOLEAN, slot1 : BOOLEAN, slot2 : BOOLEAN] :
        /\ f.prepare => ~(f.cred \/ f.slot1 \/ f.slot2)
        /\ f.cred => ~(f.slot1 \/ f.slot2)}

Next ==
    \/ Tick
    \/ \E w \in Workers :
          \/ CallRegister(w, <<>>)
          \/ \E u \in UUIDs : CallGetByUsername(w, u)
          \/ \E d \in SubPool : CallGetTXTForDomain(w, d)
          \/ \E sub \in SubPool : CallUpdate(w, sub, MaxStoreUpdates)
          \/ Lock(w)
          \/ \E id \in Identities, f \in Failures :
                Register(w, id[1], id[3], id[2], f)
          \/ \E fail \in BOOLEAN : GetByUsername(w, fail)
          \/ \E fail \in BOOLEAN : GetTXTForDomain(w, fail)
          \/ Update(w)
          \/ Return(w)

Spec == Init /\ [][Next]_vars

\* the writers alone: Register and Update calls under the clock
NextRotation ==
    \/ Tick
    \/ \E w \in Workers :
          \/ CallRegister(w, <<>>)
          \/ \E sub \in SubPool : CallUpdate(w, sub, MaxUpdates)
          \/ Lock(w)
          \/ \E id \in Identities, f \in Failures :
                Register(w, id[1], id[3], id[2], f)
          \/ Update(w)
          \/ Return(w)

SpecRotation == Init /\ [][NextRotation]_vars

(***************************************************************************)
(* pkg/api: validation of the request's fields.                            *)
(***************************************************************************)
KeyLength == 40
TXTLength == 43
StatusOK == 200
StatusBadRequest == 400
StatusUnauthorized == 401
StatusMethodNotAllowed == 405
StatusInternalServerError == 500

\* the strings uuid.Parse accepts
UUIDSyntax == {"u1", "u2", "u3"}

getValidUsername(u) ==
    IF u \in UUIDSyntax THEN [uuid |-> u, err |-> None]
    ELSE [uuid |-> None, err |-> "invalid UUID"]

validKey(k) ==
    /\ RuneCountInString(k) = KeyLength
    /\ RuneCountInString(SanitizeString(k)) = KeyLength

\* the strings ^[A-Za-z0-9](?:[A-Za-z0-9-]{0,61}[A-Za-z0-9])?$ matches
LabelSyntax == {"s1", "s2", "s3"}

validSubdomain(s) == s \in LabelSyntax

\* a check of the length alone
validTXTLength(s) == RuneCountInString(s) = TXTLength

validTXT(s) ==
    /\ RuneCountInString(s) = TXTLength
    /\ RuneCountInString(SanitizeString(s)) = TXTLength

(***************************************************************************)
(* pkg/api: the auth middleware of /update.                                *)
(***************************************************************************)
\* the fixed hash the middleware compares with when the lookup fails
PlaceholderHash == <<"bcrypt", "placeholder">>

\* a failed lookup that compares nothing
NoComparison == <<>>

\* the comparison made when the lookup fails: CorrectPassword(passwd,
\* placeholder), its result dropped
PlaceholderComparison == <<PlaceholderHash>>

\* the user of the request, or the error, with the hashes CorrectPassword was
\* called with on the way
getUserFromRequest(recs, r, fail) ==
    LET username == getValidUsername(r.XApiUser)
    IN  IF username.err # None
        THEN [user |-> None, err |-> "invalid_uuid", compares |-> <<>>]
        ELSE IF validKey(r.XApiKey)
        THEN LET q == GetByUsernameQuery(recs, username.uuid, fail)
             IN  IF q.err # None
                 THEN [user |-> None, err |-> "invalid_username",
                       compares |-> PlaceholderComparison]
                 ELSE IF CorrectPassword(r.XApiKey, q.user.Password)
                 THEN [user |-> q.user, err |-> None,
                       compares |-> <<q.user.Password>>]
                 ELSE [user |-> None, err |-> "invalid_password",
                       compares |-> <<q.user.Password>>]
        ELSE [user |-> None, err |-> "invalid_key", compares |-> <<>>]

\* net.SplitHostPort
SplitHostPort(addr) ==
    CASE addr = "10.0.0.5:1234" -> [host |-> "10.0.0.5", err |-> None]
      [] addr = "10.0.1.5:1234" -> [host |-> "10.0.1.5", err |-> None]
      [] addr = "[::1]:4567" -> [host |-> "::1", err |-> None]
      [] OTHER -> [host |-> "", err |-> "missing port in address"]

\* strings.Split(header, ",")
SplitComma(header) ==
    CASE header = "10.0.1.5, 10.0.0.5" -> <<"10.0.1.5", " 10.0.0.5">>
      [] header = "10.0.1.5," -> <<"10.0.1.5", "">>
      [] header = "10.0.1.5, ,10.0.0.5" -> <<"10.0.1.5", " ", "10.0.0.5">>
      [] header = "," -> <<"", "">>
      [] OTHER -> <<header>>

\* strings.TrimSpace
TrimSpace(v) ==
    CASE v = " 10.0.0.5" -> "10.0.0.5"
      [] v = " " -> ""
      [] OTHER -> v

getIPListFromHeader(header) ==
    LET nonEmpty(v) == v # ""
        kept == SelectSeq(SplitComma(header), nonEmpty)
    IN  [i \in DOMAIN kept |-> TrimSpace(kept[i])]

updateAllowedFromIP(cfgUseHeader, r, user) ==
    IF cfgUseHeader
    THEN IsAllowedFromList(user.AllowFrom, getIPListFromHeader(r.XForwardedFor))
    ELSE LET hp == SplitHostPort(r.RemoteAddr)
             host == IF hp.err # None THEN "" ELSE hp.host
         IN  IsAllowedFrom(user.AllowFrom, host)

\* the bodies of the model
PostBody ==
    [S1 |-> "{\"subdomain\": \"s1\", \"txt\": \"txt1\"}",
     S2 |-> "{\"subdomain\": \"s2\", \"txt\": \"txt1\"}",
     S3 |-> "{\"subdomain\": \"s3\", \"txt\": \"txt1\"}",
     S1Txt2 |-> "{\"subdomain\": \"s1\", \"txt\": \"txt2\"}",
     S1Txt3 |-> "{\"subdomain\": \"s1\", \"txt\": \"txt3\"}",
     S1Txt42 |-> "{\"subdomain\": \"s1\", \"txt\": \"txt42\"}",
     S1Txt44 |-> "{\"subdomain\": \"s1\", \"txt\": \"txt44\"}",
     S1Txt43x |-> "{\"subdomain\": \"s1\", \"txt\": \"txt43x\"}",
     S1NoTxt |-> "{\"subdomain\": \"s1\"}",
     ExampleCom |-> "{\"subdomain\": \"example.com\", \"txt\": \"txt1\"}",
     Typed |-> "{\"subdomain\": \"s1\", \"txt\": 7}",
     Garbage |-> "not json"]

\* a decoder that leaves nothing decoded when it fails
DecodeAllOrNothing(body) ==
    CASE body = PostBody.S1 ->
            [post |-> [Subdomain |-> "s1", Value |-> "txt1"], err |-> None]
      [] body = PostBody.S2 ->
            [post |-> [Subdomain |-> "s2", Value |-> "txt1"], err |-> None]
      [] body = PostBody.S3 ->
            [post |-> [Subdomain |-> "s3", Value |-> "txt1"], err |-> None]
      [] body = PostBody.S1Txt2 ->
            [post |-> [Subdomain |-> "s1", Value |-> "txt2"], err |-> None]
      [] body = PostBody.S1Txt3 ->
            [post |-> [Subdomain |-> "s1", Value |-> "txt3"], err |-> None]
      [] body = PostBody.S1Txt42 ->
            [post |-> [Subdomain |-> "s1", Value |-> "txt42"], err |-> None]
      [] body = PostBody.S1Txt44 ->
            [post |-> [Subdomain |-> "s1", Value |-> "txt44"], err |-> None]
      [] body = PostBody.S1Txt43x ->
            [post |-> [Subdomain |-> "s1", Value |-> "txt43x"], err |-> None]
      [] body = PostBody.S1NoTxt ->
            [post |-> [Subdomain |-> "s1", Value |-> ""], err |-> None]
      [] body = PostBody.ExampleCom ->
            [post |-> [Subdomain |-> "example.com", Value |-> "txt1"],
             err |-> None]
      [] body = PostBody.Typed ->
            [post |-> [Subdomain |-> "", Value |-> ""],
             err |-> "cannot unmarshal number"]
      [] OTHER ->
            [post |-> [Subdomain |-> "", Value |-> ""],
             err |-> "invalid character"]

\* json.NewDecoder(r.Body).Decode(&postData): a wrongly typed field is an
\* error that leaves the other fields decoded
Decode(body) ==
    CASE body = PostBody.S1 ->
            [post |-> [Subdomain |-> "s1", Value |-> "txt1"], err |-> None]
      [] body = PostBody.S2 ->
            [post |-> [Subdomain |-> "s2", Value |-> "txt1"], err |-> None]
      [] body = PostBody.S3 ->
            [post |-> [Subdomain |-> "s3", Value |-> "txt1"], err |-> None]
      [] body = PostBody.S1Txt2 ->
            [post |-> [Subdomain |-> "s1", Value |-> "txt2"], err |-> None]
      [] body = PostBody.S1Txt3 ->
            [post |-> [Subdomain |-> "s1", Value |-> "txt3"], err |-> None]
      [] body = PostBody.S1Txt42 ->
            [post |-> [Subdomain |-> "s1", Value |-> "txt42"], err |-> None]
      [] body = PostBody.S1Txt44 ->
            [post |-> [Subdomain |-> "s1", Value |-> "txt44"], err |-> None]
      [] body = PostBody.S1Txt43x ->
            [post |-> [Subdomain |-> "s1", Value |-> "txt43x"], err |-> None]
      [] body = PostBody.S1NoTxt ->
            [post |-> [Subdomain |-> "s1", Value |-> ""], err |-> None]
      [] body = PostBody.ExampleCom ->
            [post |-> [Subdomain |-> "example.com", Value |-> "txt1"],
             err |-> None]
      [] body = PostBody.Typed ->
            [post |-> [Subdomain |-> "s1", Value |-> ""],
             err |-> "cannot unmarshal number"]
      [] OTHER ->
            [post |-> [Subdomain |-> "", Value |-> ""],
             err |-> "invalid character"]

\* fmt.Sprintf("{\"error\": \"%s\"}", message)
jsonErrorPlain(message) == message

jsonError(message) == "{\"error\": \"" \o message \o "\"}"

\* a response that tells the cause
RejectResponseByCause(cause) ==
    [status |-> StatusUnauthorized,
     header |-> [NoHeader EXCEPT !.ContentType = "application/json"],
     body |-> jsonError(cause)]

\* the else branch of the middleware, whatever the cause was
RejectResponse(cause) ==
    [status |-> StatusUnauthorized,
     header |-> [NoHeader EXCEPT !.ContentType = "application/json"],
     body |-> jsonError("forbidden")]

\* a middleware that leaves a subdomain that is no label to the handler
userOKLabelsOnly(allowed, user, postData) ==
    allowed /\ (validSubdomain(postData.Subdomain) =>
                   user.Subdomain = postData.Subdomain)

\* a middleware that does not compare the subdomains
userOKAnySubdomain(allowed, user, postData) == allowed

\* userOK of the middleware: allowed from the address, and the body names the
\* user's own subdomain
userOK(allowed, user, postData) ==
    allowed /\ user.Subdomain = postData.Subdomain

\* a middleware that decodes the body before it checks the address
gateOfBodyFirst(identified, allowed, matched) ==
    IF ~identified THEN <<"ResolveIdentity", "Rejected">>
    ELSE IF ~allowed
    THEN <<"ResolveIdentity", "ParseBody", "CheckNetwork", "Rejected">>
    ELSE <<"ResolveIdentity", "ParseBody", "CheckNetwork",
           "CheckSubdomainMatch",
           IF matched THEN "Authorized" ELSE "Rejected">>

\* the statements of authMiddleware.ServeHTTP that a request goes through,
\* by the nesting of its branches: getUserFromRequest, then
\* updateAllowedFromIP if there was no error, then Decode and the comparison
\* of the subdomains if the address is allowed, then next or the 401
gateOf(identified, allowed, matched) ==
    IF ~identified THEN <<"ResolveIdentity", "Rejected">>
    ELSE IF ~allowed THEN <<"ResolveIdentity", "CheckNetwork", "Rejected">>
    ELSE <<"ResolveIdentity", "CheckNetwork", "ParseBody",
           "CheckSubdomainMatch",
           IF matched THEN "Authorized" ELSE "Rejected">>

\* authMiddleware.ServeHTTP up to the call of next or the rejection: the
\* user, the hashes compared, the decoded body, the verdict and, for the log,
\* the branch that rejected
authServe(recs, cfgUseHeader, r, fail) ==
    LET g == getUserFromRequest(recs, r, fail)
        allowed == g.err = None /\ updateAllowedFromIP(cfgUseHeader, r, g.user)
        dec == Decode(r.Body)
        pass == g.err = None /\ userOK(allowed, g.user, dec.post)
    IN  [ok |-> pass,
         gate |-> gateOf(g.err = None, allowed, pass),
         compares |-> g.compares,
         postData |-> IF pass
                      THEN [Username |-> g.user.Username,
                            Password |-> g.user.Password,
                            Subdomain |-> dec.post.Subdomain,
                            Value |-> dec.post.Value]
                      ELSE NoContext,
         cause |-> IF pass THEN None
                   ELSE IF g.err # None THEN g.err
                   ELSE IF ~allowed THEN "ip_unauthorized"
                   ELSE "subdomain_mismatch"]

(***************************************************************************)
(* pkg/api: the update handler.                                            *)
(***************************************************************************)
\* what webUpdateHandler answers before it reaches the store, NoResponse if
\* it reaches it
updateEarly(method, a) ==
    IF method # "POST"
    THEN [status |-> StatusMethodNotAllowed,
          header |-> [NoHeader EXCEPT !.Allow = "POST"], body |-> ""]
    ELSE IF ~validSubdomain(a.Subdomain)
    THEN [status |-> StatusBadRequest,
          header |-> [NoHeader EXCEPT !.ContentType = "application/json"],
          body |-> jsonError("bad_subdomain")]
    ELSE IF ~validTXT(a.Value)
    THEN [status |-> StatusBadRequest,
          header |-> [NoHeader EXCEPT !.ContentType = "application/json"],
          body |-> jsonError("bad_txt")]
    ELSE NoResponse

\* the tables the UPDATE statement of acmedb.Update may leave
UpdateOutcomes(t, sub, value, timenow) ==
    IF OldestRows(t, sub) = {} THEN {t}
    ELSE {UpdateRow(t, i, value, timenow) : i \in OldestRows(t, sub)}

(***************************************************************************)
(* One /update request at a time through the middleware and the handler.   *)
(* The store calls inside (GetByUsername, Update) take the mutex and give  *)
(* it back within the step. The clock stands still here: every Update of   *)
(* this specification reads the same second, so that any slot of the       *)
(* subdomain may be the one it overwrites.                                 *)
(***************************************************************************)
Requests ==
    [Path : {"/update"},
     Method : {"POST", "GET"},
     XApiUser : {"u1", "u2", "u3", ""},
     XApiKey : {"k1", "k2", "k40x"},
     RemoteAddr : {"10.0.0.5:1234", "10.0.1.5:1234", "invalid"},
     XForwardedFor : {"", "10.0.1.5, 10.0.0.5"},
     Body : {PostBody.S1, PostBody.S2, PostBody.S3, PostBody.S1Txt42,
             PostBody.S1Txt44, PostBody.S1Txt43x, PostBody.S1NoTxt,
             PostBody.ExampleCom, PostBody.Typed, PostBody.Garbage}]

\* the route of /update takes a request
Receive(r) ==
    /\ hpc = "idle"
    /\ r.Path = "/update"
    /\ hpc' = "auth"
    /\ req' = r
    /\ snap' = [records |-> records, txt |-> txt]
    /\ gate' = <<"ReceiveHeaders">>
    /\ UNCHANGED <<storeVars, procVars, ghostVars, aclVars, dnsVars,
                   useHeader, resp, ctx, ncmp, upds, why, prevRej>>

AuthServeHTTP(fail) ==
    /\ hpc = "auth"
    /\ mutex = None
    /\ LET m == authServe(records, useHeader, req, fail)
       IN  /\ ncmp' = m.compares
           /\ ctx' = m.postData
           /\ why' = m.cause
           /\ gate' = gate \o m.gate
           /\ IF m.ok
              THEN hpc' = "handler" /\ UNCHANGED resp
              ELSE hpc' = "done" /\ resp' = RejectResponse(m.cause)
    /\ UNCHANGED <<storeVars, procVars, ghostVars, aclVars, dnsVars,
                   useHeader, req, upds, snap, prevRej>>

\* the response of the handler once db.Update has returned err
updateResponse(a, err) ==
    IF err # None
    THEN [status |-> StatusInternalServerError,
          header |-> [NoHeader EXCEPT !.ContentType = "application/json"],
          body |-> jsonError("db_error")]
    ELSE [status |-> StatusOK,
          header |-> [NoHeader EXCEPT !.ContentType = "application/json"],
          body |-> "{\"txt\": \"" \o a.Value \o "\"}"]

\* the one call h.db.Update(&a.ACMETxtPost): the tables it may leave and the
\* error it returns, an error leaving the tables as they are
dbUpdate(t, a, timenow) ==
    {[txt |-> t, err |-> "exec error"]}
    \cup {[txt |-> u, err |-> None] :
             u \in UpdateOutcomes(t, a.Subdomain, a.Value, timenow)}

\* a handler that calls db.Update again after an error
storeBranchRetry(t, a, timenow) ==
    {[txt |-> o.txt, errs |-> <<o.err>>, resp |-> updateResponse(a, o.err)] :
        o \in {x \in dbUpdate(t, a, timenow) : x.err = None}}
    \cup {[txt |-> o.txt, errs |-> <<"exec error", o.err>>,
           resp |-> updateResponse(a, o.err)] : o \in dbUpdate(t, a, timenow)}

\* the branch of the handler that calls the store: the tables, the errors of
\* the calls of db.Update and the response
storeBranch(t, a, timenow) ==
    {[txt |-> o.txt, errs |-> <<o.err>>, resp |-> updateResponse(a, o.err)] :
        o \in dbUpdate(t, a, timenow)}

UpdateServeHTTP ==
    /\ hpc = "handler"
    /\ mutex = None
    /\ hpc' = "done"
    /\ \/ /\ updateEarly(req.Method, ctx) # NoResponse
          /\ resp' = updateEarly(req.Method, ctx)
          /\ UNCHANGED <<txt, hist, upds>>
       \/ /\ updateEarly(req.Method, ctx) = NoResponse
          /\ \E o \in storeBranch(txt, ctx, now) :
                /\ txt' = o.txt
                /\ upds' = o.errs
                /\ resp' = o.resp
                /\ hist' = IF o.resp.status = StatusOK
                           THEN [hist EXCEPT ![ctx.Subdomain] =
                                    LastTwo(Append(@, ctx.Value))]
                           ELSE hist
    /\ UNCHANGED <<engine, records, mutex, now, procVars, nUpd, issued,
                   aclVars, dnsVars,
                   useHeader, req, ctx, ncmp, gate, why, snap, prevRej>>

\* the response is sent; the next request may arrive
Finish ==
    /\ hpc = "done"
    /\ hpc' = "idle"
    /\ prevRej' = IF why # None THEN [cause |-> why, resp |-> resp] ELSE prevRej
    /\ req' = NoRequest
    /\ resp' = NoResponse
    /\ ctx' = NoContext
    /\ ncmp' = <<>>
    /\ upds' = <<>>
    /\ gate' = <<>>
    /\ why' = None
    /\ snap' = NoRequest
    /\ UNCHANGED <<storeVars, procVars, ghostVars, aclVars, dnsVars, useHeader>>

NoFailure ==
    [prepare |-> FALSE, cred |-> FALSE, slot1 |-> FALSE, slot2 |-> FALSE]

\* the tables after two registrations: u1 without an allow-list, u2 with one
TwoUsers ==
    LET a1 == NewACMETxt("u1", "k1", "s1")
        a2 == [NewACMETxt("u2", "k2", "s2") EXCEPT !.AllowFrom = <<NetA>>]
        d1 == RegisterTx({}, <<>>, "sqlite3", a1, NoFailure).db
    IN  RegisterTx(d1.records, d1.txt, "sqlite3", a2, NoFailure).db

InitHTTP ==
    /\ engine = "sqlite3"
    /\ records = TwoUsers.records
    /\ txt = TwoUsers.txt
    /\ mutex = None
    /\ now = 1
    /\ pc = Idle
    /\ op = NoneOf
    /\ arg = NoCallOf
    /\ ret = NoCallOf
    /\ nUpd = 0
    /\ hist = [s \in SubPool |-> <<>>]
    /\ issued = Identities
    /\ useHeader \in BOOLEAN
    /\ HTTPIdle
    /\ prevRej = NoRejection
    /\ aclIn = None
    /\ aclOut = NoCheck
    /\ DNSIdle

NextHTTP ==
    \/ \E r \in Requests : Receive(r)
    \/ \E fail \in BOOLEAN : AuthServeHTTP(fail)
    \/ UpdateServeHTTP
    \/ Finish

SpecHTTP == InitHTTP /\ [][NextHTTP]_vars

(***************************************************************************)
(* pkg/api: the handlers of /register and /health.                         *)
(***************************************************************************)
StatusCreated == 201

\* the bodies of the requests to /register
RegBody ==
    [Empty |-> "",
     Object |-> "{}",
     NetA |-> "{\"allowfrom\": [\"10.0.0.0/24\"]}",
     V6 |-> "{\"allowfrom\": [\"[::1]/128\"]}",
     Invalid |-> "{\"allowfrom\": [\"invalid\"]}",
     NetAInvalid |-> "{\"allowfrom\": [\"10.0.0.0/24\", \"invalid\"]}",
     InvalidV6 |-> "{\"allowfrom\": [\"invalid\", \"[::1]/128\"]}"]

RegisterBodies ==
    {RegBody.Empty, RegBody.Object, RegBody.NetA, RegBody.V6,
     RegBody.Invalid, RegBody.NetAInvalid, RegBody.InvalidV6,
     PostBody.Garbage}

\* json.Unmarshal(data, &cidrs) of the allowfrom member of the body
UnmarshalStrings(body) ==
    CASE body = RegBody.Object -> [cidrs |-> <<>>, present |-> FALSE, err |-> None]
      [] body = RegBody.NetA ->
            [cidrs |-> <<"10.0.0.0/24">>, present |-> TRUE, err |-> None]
      [] body = RegBody.V6 ->
            [cidrs |-> <<"[::1]/128">>, present |-> TRUE, err |-> None]
      [] body = RegBody.Invalid ->
            [cidrs |-> <<"invalid">>, present |-> TRUE, err |-> None]
      [] body = RegBody.NetAInvalid ->
            [cidrs |-> <<"10.0.0.0/24", "invalid">>, present |-> TRUE,
             err |-> None]
      [] body = RegBody.InvalidV6 ->
            [cidrs |-> <<"invalid", "[::1]/128">>, present |-> TRUE,
             err |-> None]
      [] OTHER -> [cidrs |-> <<>>, present |-> FALSE,
                   err |-> "invalid character"]

\* net.IPNet.String of the networks of the model
IPNetString(n) ==
    CASE n.IP = <<10, 0, 0, 0>> -> "10.0.0.0/24"
      [] n.IP = <<10, 0, 1, 0>> -> "10.0.1.0/25"
      [] n.IP = <<192, 168, 1, 2>> -> "192.168.1.2/32"
      [] OTHER -> "::1/128"

\* an unmarshalling that drops the entries that are no networks
UnmarshalValid(body) ==
    LET u == UnmarshalStrings(body)
        p == ParseCIDRSlice(u.cidrs)
    IN  IF u.err # None THEN [AllowFrom |-> <<>>, err |-> u.err]
        ELSE [AllowFrom |-> [i \in DOMAIN p.nets |-> IPNetString(p.nets[i])],
              err |-> None]

\* json.Unmarshal(bdata, &aTXT) with CIDRSlice.UnmarshalJSON: the allow-list
\* as the strings of its networks, and the error
Unmarshal(body) ==
    LET u == UnmarshalStrings(body)
        p == ParseCIDRSlice(u.cidrs)
    IN  IF u.err # None THEN [AllowFrom |-> <<>>, err |-> u.err]
        ELSE [AllowFrom |-> [i \in DOMAIN p.nets |-> IPNetString(p.nets[i])],
              err |-> p.err]

\* what webRegisterHandler answers before it reaches the store, NoResponse
\* if it reaches it
registerEarly(method, body) ==
    IF method # "POST"
    THEN [status |-> StatusMethodNotAllowed,
          header |-> [NoHeader EXCEPT !.Allow = "POST"], body |-> ""]
    ELSE IF body # "" /\ Unmarshal(body).err # None
    THEN [status |-> StatusBadRequest,
          header |-> [NoHeader EXCEPT !.ContentType = "application/json"],
          body |-> IF Unmarshal(body).err = "Invalid CIDR string"
                   THEN jsonError("invalid_allowfrom_cidr")
                   ELSE jsonError("malformed_json_payload")]
    ELSE NoResponse

\* json.Marshal of the RegResponse, its allowfrom member left out
RegResponse(nu) ==
    "{\"username\": \"" \o nu.Username \o "\", \"password\": \""
        \o nu.Password \o "\", \"fulldomain\": \"" \o nu.Subdomain
        \o ".auth.example.org\", \"subdomain\": \"" \o nu.Subdomain \o "\"}"

\* the response of the register handler once db.Register has returned
registerResponse(nu, err) ==
    IF err # None
    THEN [status |-> StatusInternalServerError,
          header |-> [NoHeader EXCEPT !.ContentType = "application/json"],
          body |-> jsonError(err)]
    ELSE [status |-> StatusCreated,
          header |-> [NoHeader EXCEPT !.ContentType = "application/json"],
          body |-> RegResponse(nu)]

\* what healthCheckHandler answers; ping is the error of Ping
healthCheck(method, ping) ==
    IF method # "GET"
    THEN [status |-> StatusMethodNotAllowed,
          header |-> [NoHeader EXCEPT !.Allow = "GET"], body |-> ""]
    ELSE IF ping # None
    THEN [status |-> StatusInternalServerError, header |-> NoHeader,
          body |-> ""]
    ELSE [status |-> StatusOK, header |-> NoHeader, body |-> ""]

(***************************************************************************)
(* The HTTP API with its three routes, registration enabled, on a store    *)
(* that starts empty: /register and /health answer within one step,        *)
(* /update goes through the middleware and the handler as above.           *)
(***************************************************************************)
\* what NewACMETxt may generate in db.Register: a fresh identity, secret and
\* subdomain, or the identity or the subdomain of an earlier registration
Generated ==
    {<<"u1", "k1", "s1">>, <<"u2", "k2", "s2">>,
     <<"u1", "k2", "s2">>, <<"u2", "k2", "s1">>}

\* the statements of Register that fail in this specification
APIFailures == {f \in Failures : ~f.prepare /\ ~f.slot2}

\* the requests to /register and /health, with and without credentials
PlainRequests ==
    {r \in [Path : {"/register", "/health"},
            Method : {"POST", "GET"},
            XApiUser : {"", "u1"},
            XApiKey : {"", "k1"},
            RemoteAddr : {"10.0.0.5:1234"},
            XForwardedFor : {""},
            Body : RegisterBodies] :
        /\ (r.XApiUser = "") = (r.XApiKey = "")
        /\ r.Path = "/health" => r.Body = RegBody.Empty
        /\ r.Method = "GET" => r.Body \in {RegBody.Empty, RegBody.NetA}}

\* the requests to /update of this specification
APIUpdateRequests ==
    {r \in [Path : {"/update"},
            Method : {"POST", "GET"},
            XApiUser : {"", "u1"},
            XApiKey : {"", "k1", "k2"},
            RemoteAddr : {"10.0.0.5:1234"},
            XForwardedFor : {""},
            Body : {PostBody.S1}] :
        /\ (r.XApiUser = "") = (r.XApiKey = "")
        /\ r.XApiKey = "k2" => r.Method = "POST"}

\* webRegisterHandler.ServeHTTP with the call of db.Register inside: g is
\* what NewACMETxt generates, f the statements that fail
RegisterServeHTTP(r, g, f) ==
    /\ hpc = "idle"
    /\ mutex = None
    /\ r.Path = "/register"
    /\ hpc' = "done"
    /\ req' = r
    /\ snap' = [records |-> records, txt |-> txt]
    /\ \/ /\ registerEarly(r.Method, r.Body) # NoResponse
          /\ resp' = registerEarly(r.Method, r.Body)
          /\ UNCHANGED <<records, txt, issued>>
       \/ /\ registerEarly(r.Method, r.Body) = NoResponse
          /\ LET afrom == IF r.Body = "" THEN <<>>
                          ELSE Unmarshal(r.Body).AllowFrom
                 a == [NewACMETxt(g[1], g[2], g[3]) EXCEPT !.AllowFrom = afrom]
                 x == RegisterTx(records, txt, engine, a, f)
             IN  /\ records' = x.db.records
                 /\ txt' = x.db.txt
                 /\ resp' = registerResponse(a, x.err)
                 /\ issued' = IF x.err = None THEN issued \cup {<<g[1], g[3], g[2]>>}
                                              ELSE issued
    /\ UNCHANGED <<engine, mutex, now, procVars, nUpd, hist, aclVars, dnsVars,
                   useHeader, ctx, ncmp, upds, gate, why, prevRej>>

\* healthCheckHandler.ServeHTTP; ping is the error of Ping
HealthServeHTTP(r, ping) ==
    /\ hpc = "idle"
    /\ r.Path = "/health"
    /\ hpc' = "done"
    /\ req' = r
    /\ snap' = [records |-> records, txt |-> txt]
    /\ resp' = healthCheck(r.Method, ping)
    /\ UNCHANGED <<storeVars, procVars, ghostVars, aclVars, dnsVars,
                   useHeader, ctx, ncmp, upds, gate, why, prevRej>>

NextAPI ==
    \/ \E r \in PlainRequests, g \in Generated, f \in APIFailures :
          RegisterServeHTTP(r, g, f)
    \/ \E r \in PlainRequests, ping \in {None, "ping error"} :
          HealthServeHTTP(r, ping)
    \/ \E r \in APIUpdateRequests : Receive(r)
    \/ \E fail \in BOOLEAN : AuthServeHTTP(fail)
    \/ UpdateServeHTTP
    \/ Finish

SpecAPI == Init /\ [][NextAPI]_vars

(***************************************************************************)
(* The allow-list check on its own: one list and one address, checked by   *)
(* ACMETxt.IsAllowedFrom and by CIDRSlice.Contains of the parsed list.     *)
(***************************************************************************)
\* the longest allow-list checked
MaxListLen == 2

CIDRStrings == {"10.0.0.0/24", "192.168.1.2/32", "[::1]/128", "invalid"}

AddrStrings == {"10.0.0.5", "10.0.1.5", "192.168.1.2", "::1", "invalid", ""}

ListsUpTo(n) == UNION {[1..k -> CIDRStrings] : k \in 0..n}

\* the candidate lists: what a forwarding header may yield
CandidatesUpTo(n) == UNION {[1..k -> AddrStrings] : k \in 0..n}

\* the values of the forwarding header; a missing header reads as ""
HeaderStrings ==
    {"", ",", " ", "10.0.1.5,", "10.0.1.5, 10.0.0.5", "10.0.1.5, ,10.0.0.5"}

InitACL ==
    /\ engine = "sqlite3"
    /\ records = {}
    /\ txt = <<>>
    /\ mutex = None
    /\ now = 1
    /\ pc = Idle
    /\ op = NoneOf
    /\ arg = NoCallOf
    /\ ret = NoCallOf
    /\ nUpd = 0
    /\ hist = [s \in SubPool |-> <<>>]
    /\ issued = {}
    /\ useHeader = FALSE
    /\ HTTPIdle
    /\ prevRej = NoRejection
    /\ aclIn \in [allow : ListsUpTo(MaxListLen), ip : AddrStrings,
                  ips : CandidatesUpTo(MaxListLen), header : HeaderStrings]
    /\ aclOut = NoCheck
    /\ DNSIdle

CheckAllowed ==
    /\ ~aclOut.done
    /\ aclOut' = [done |-> TRUE,
                  allowed |-> IsAllowedFrom(aclIn.allow, aclIn.ip),
                  contains |-> Contains(ParseCIDRSlice(aclIn.allow).nets,
                                        ParseIP(aclIn.ip)),
                  allowedList |-> IsAllowedFromList(aclIn.allow, aclIn.ips),
                  containsAny |->
                      ContainsAny(ParseCIDRSlice(aclIn.allow).nets,
                                  [i \in DOMAIN aclIn.ips |->
                                      ParseIP(aclIn.ips[i])]),
                  iplist |-> getIPListFromHeader(aclIn.header),
                  fromHeader |->
                      IsAllowedFromList(aclIn.allow,
                                        getIPListFromHeader(aclIn.header))]
    /\ UNCHANGED <<storeVars, procVars, ghostVars, httpVars, aclIn, dnsVars>>

NextACL == CheckAllowed

SpecACL == InitACL /\ [][NextACL]_vars

(***************************************************************************)
(* pkg/dns: the DNS server. A domain name is the sequence of its labels as *)
(* strings.Split(name, ".") gives them, so a fully qualified name ends     *)
(* with the empty label and strings.Join(parts[i:], ".") is a suffix of    *)
(* the sequence.                                                           *)
(***************************************************************************)
RcodeSuccess == 0
RcodeNameError == 3
RcodeBadVers == 16
EdnsUDPSize == 512

\* DNSServer.Domain: Config.Domain in lower case with the final dot
Domain == <<"auth", "example", "org", "">>

\* strings.ToLower on the labels of the model
ToLowerLabel(l) ==
    CASE l = "S1" -> "s1"
      [] l = "Auth" -> "auth"
      [] l = "_ACME-Challenge" -> "_acme-challenge"
      [] OTHER -> l

ToLower(name) == [i \in DOMAIN name |-> ToLowerLabel(name[i])]

\* strings.HasSuffix(domain, ".")
HasSuffixDot(name) == Len(name) >= 2 /\ name[Len(name)] = ""

\* a resource record: header and data
RR(name, rrtype, ttl, data) ==
    [Name |-> name, Rrtype |-> rrtype, Ttl |-> ttl, Data |-> data]

\* DNSServer.SOA, as ParseRecords builds it
SOA ==
    RR(Domain, "SOA", 3600, <<"ns1.auth.example.org.", "admin.example.org.">>)

\* DNSServer.Domains after ParseRecords: the static records by owner name,
\* the SOA appended last
Domains ==
    (Domain :> <<RR(Domain, "A", 3600, <<"192.168.1.100">>), SOA>>)
    @@ (<<"ns1", "auth", "example", "org", "">> :>
          <<RR(<<"ns1", "auth", "example", "org", "">>, "A", 3600,
               <<"192.168.1.101">>)>>)
    @@ (<<"cn", "example", "org", "">> :>
          <<RR(<<"cn", "example", "org", "">>, "CNAME", 3600,
               <<"something.example.org.">>)>>)

\* the records of the question's type, or the CNAMEs when there is none
getRecord(q) ==
    IF ToLower(q.Name) \notin DOMAIN Domains
    THEN [rr |-> <<>>, err |-> "No records for domain"]
    ELSE LET records_ == Domains[ToLower(q.Name)]
             ofType(ri) == ri.Rrtype = q.Qtype
             isCNAME(ri) == ri.Rrtype = "CNAME"
             rr == SelectSeq(records_, ofType)
         IN  IF Len(rr) = 0
             THEN [rr |-> SelectSeq(records_, isCNAME), err |-> None]
             ELSE [rr |-> rr, err |-> None]

answeringForDomain(name) ==
    \/ Domain = ToLower(name)
    \/ ToLower(name) \in DOMAIN Domains

\* an isAuthoritative that looks at the whole name only
isAuthoritativeExact(q) == answeringForDomain(q.Name)

isAuthoritative(q) ==
    \/ answeringForDomain(q.Name)
    \/ \E i \in 1..Len(q.Name) :
          answeringForDomain(SubSeq(ToLower(q.Name), i, Len(q.Name)))

\* strings.SplitN(name, ".", 2): the first label and the rest
isOwnChallenge(name) ==
    /\ Len(name) >= 2
    /\ ToLowerLabel(name[1]) = "_acme-challenge"
    /\ LET domain == ToLower(Tail(name))
       IN  (IF HasSuffixDot(domain) THEN domain ELSE Append(domain, ""))
               = Domain

\* the first label in lower case; the whole name in lower case if it has no
\* dot (one label) or starts with one (the root name ".")
sanitizeDomainQuestion(d) ==
    IF Len(d) >= 2 /\ d[1] # "" THEN ToLowerLabel(d[1])
    ELSE IF Len(d) = 1 THEN ToLowerLabel(d[1])
    ELSE "."

\* new(dns.TXT) with the header of answerTXT and answerOwnChallenge
TXT(name, v) == RR(name, "TXT", 1, <<v>>)

\* TXT records for every value, the empty ones too
TXTRecordsOfAll(q, atxt) ==
    IF atxt.err # None THEN [rr |-> <<>>, err |-> atxt.err]
    ELSE [rr |-> [i \in DOMAIN atxt.txts |-> TXT(q.Name, atxt.txts[i])],
          err |-> None]

\* the TXT records answerTXT builds from the result of DB.GetTXTForDomain:
\* one per value of length greater than 0
TXTRecords(q, atxt) ==
    LET nonEmpty(v) == v # ""
        kept == SelectSeq(atxt.txts, nonEmpty)
    IN  IF atxt.err # None THEN [rr |-> <<>>, err |-> atxt.err]
        ELSE [rr |-> [i \in DOMAIN kept |-> TXT(q.Name, kept[i])],
              err |-> None]

answerTXT(q, t, fail) ==
    TXTRecords(q, GetTXTForDomainQuery(t, sanitizeDomainQuestion(q.Name), fail))

\* an answer that carries no value
answerOwnChallengeEmpty(q, key) == [rr |-> <<TXT(q.Name, "")>>, err |-> None]

answerOwnChallenge(q, key) == [rr |-> <<TXT(q.Name, key)>>, err |-> None]

\* a body of answer whose default code follows the authoritative flag
answerOfBySuffix(q, authoritative, own, r, txtRRs) ==
    LET rcode == IF ~own /\ ~authoritative THEN RcodeNameError ELSE RcodeSuccess
        all == IF q.Qtype = "TXT" /\ txtRRs.err = None THEN r \o txtRRs.rr
               ELSE r
    IN  [rr |-> all,
         rcode |-> IF Len(all) > 0 THEN RcodeSuccess ELSE rcode,
         auth |-> authoritative,
         err |-> None,
         reads |-> IF q.Qtype = "TXT" /\ ~own THEN 1 ELSE 0]

\* a body of answer that keeps the default code when records were found
answerOfDefaultCode(q, authoritative, own, r, txtRRs) ==
    LET rcode == IF ~own /\ ~answeringForDomain(q.Name)
                 THEN RcodeNameError ELSE RcodeSuccess
        all == IF q.Qtype = "TXT" /\ txtRRs.err = None THEN r \o txtRRs.rr
               ELSE r
    IN  [rr |-> all,
         rcode |-> rcode,
         auth |-> authoritative,
         err |-> None,
         reads |-> IF q.Qtype = "TXT" /\ ~own THEN 1 ELSE 0]

\* the body of DNSServer.answer once its calls have returned: authoritative
\* is isAuthoritative(q), own is isOwnChallenge(q.Name), r is the result of
\* getRecord and txtRRs that of answerOwnChallenge or answerTXT; reads counts
\* the calls of DB.GetTXTForDomain
answerOf(q, authoritative, own, r, txtRRs) ==
    LET rcode == IF ~own /\ ~answeringForDomain(q.Name)
                 THEN RcodeNameError ELSE RcodeSuccess
        all == IF q.Qtype = "TXT" /\ txtRRs.err = None THEN r \o txtRRs.rr
               ELSE r
    IN  [rr |-> all,
         rcode |-> IF Len(all) > 0 THEN RcodeSuccess ELSE rcode,
         auth |-> authoritative,
         err |-> None,
         reads |-> IF q.Qtype = "TXT" /\ ~own THEN 1 ELSE 0]

\* DNSServer.answer
answer(q, t, key, fail) ==
    answerOf(q, isAuthoritative(q), isOwnChallenge(q.Name), getRecord(q).rr,
             IF isOwnChallenge(q.Name) THEN answerOwnChallenge(q, key)
             ELSE answerTXT(q, t, fail))

\* the body of the loop of readQuery for one question: st holds the message
\* and the local variable authoritative, a is the result of answer
readAnswer(st, a) ==
    IF a.err = None
    THEN [m |-> [st.m EXCEPT !.Rcode = a.rcode,
                             !.Answer = @ \o a.rr,
                             !.reads = @ + a.reads],
          authoritative |-> st.authoritative \/ a.auth]
    ELSE [st EXCEPT !.m.reads = @ + a.reads]

RECURSIVE readQuestions(_, _, _, _, _)
\* the loop of readQuery from question i on
readQuestions(st, i, t, key, fail) ==
    IF i > Len(st.m.Question) THEN st
    ELSE readQuestions(readAnswer(st, answer(st.m.Question[i], t, key, fail)),
                       i + 1, t, key, fail)

\* an end of readQuery that attaches the SOA to every name error
readQueryEndAnyNameError(st) ==
    IF st.m.Rcode = RcodeNameError
    THEN [st.m EXCEPT !.Authoritative = st.authoritative, !.Ns = Append(@, SOA)]
    ELSE [st.m EXCEPT !.Authoritative = st.authoritative]

\* what follows the loop of readQuery
readQueryEnd(st) ==
    IF st.authoritative /\ st.m.Rcode = RcodeNameError
    THEN [st.m EXCEPT !.Authoritative = TRUE, !.Ns = Append(@, SOA)]
    ELSE [st.m EXCEPT !.Authoritative = st.authoritative]

\* DNSServer.readQuery
readQuery(m, t, key, fail) ==
    readQueryEnd(readQuestions([m |-> m, authoritative |-> FALSE], 1,
                               t, key, fail))

\* the OPT pseudo record of EDNS
OPT(version, udpsize, do) ==
    [Rrtype |-> "OPT", Version |-> version, UDPSize |-> udpsize, Do |-> do]

\* dns.Msg.IsEdns0: the OPT record of the additional section, if any
IsEdns0(m) ==
    IF m.Extra = <<>> THEN [present |-> FALSE, opt |-> OPT(0, 0, FALSE)]
    ELSE [present |-> TRUE, opt |-> m.Extra[1]]

\* a reply without the OPT record
SetNoEdns0(m, udpsize, do) == m

\* dns.Msg.SetEdns0
SetEdns0(m, udpsize, do) == [m EXCEPT !.Extra = Append(@, OPT(0, udpsize, do))]

\* dns.Msg.SetReply: a response to the (first) question of the request
SetReply(r) ==
    [NoMsg EXCEPT !.Response = TRUE,
                  !.Opcode = r.Opcode,
                  !.Rcode = RcodeSuccess,
                  !.Question = Take(r.Question, 1)]

\* a handleRequest that reads the questions of every opcode
handleRequestAnyOpcode(r, t, key, fail) ==
    LET m == SetReply(r)
        opt == IsEdns0(r)
    IN  IF opt.present
        THEN IF opt.opt.Version # 0
             THEN SetEdns0([m EXCEPT !.Rcode = RcodeBadVers], EdnsUDPSize, FALSE)
             ELSE readQuery(SetEdns0(m, EdnsUDPSize, FALSE), t, key, fail)
        ELSE readQuery(m, t, key, fail)

\* DNSServer.handleRequest: the message given to w.WriteMsg
handleRequest(r, t, key, fail) ==
    LET m == SetReply(r)
        opt == IsEdns0(r)
    IN  IF opt.present
        THEN IF opt.opt.Version # 0
             THEN SetEdns0([m EXCEPT !.Rcode = RcodeBadVers], EdnsUDPSize, FALSE)
             ELSE IF r.Opcode = "QUERY"
                  THEN readQuery(SetEdns0(m, EdnsUDPSize, FALSE), t, key, fail)
                  ELSE SetEdns0(m, EdnsUDPSize, FALSE)
        ELSE IF r.Opcode = "QUERY" THEN readQuery(m, t, key, fail) ELSE m

(***************************************************************************)
(* The DNS server next to the HTTP API: DNS requests are answered while    *)
(* /update requests of one identity are served. As in the specification of *)
(* the API the clock stands still, which leaves every slot content that a  *)
(* run with a moving clock reaches reachable.                              *)
(***************************************************************************)
\* the names asked for
QueryNames ==
    {Domain,
     <<"ns1", "auth", "example", "org", "">>,
     <<"cn", "example", "org", "">>,
     <<"s1", "auth", "example", "org", "">>,
     <<"S1", "Auth", "example", "org", "">>,
     <<"s1!", "auth", "example", "org", "">>,
     <<"s3", "auth", "example", "org", "">>,
     <<"_acme-challenge", "auth", "example", "org", "">>,
     <<"_ACME-Challenge", "Auth", "example", "org", "">>,
     <<"s1", "example", "com", "">>,
     <<"www", "example", "com", "">>,
     <<"example", "org", "">>,
     <<"", "">>}

\* the name of subdomain s1 under the server domain, in both spellings
NamesOfS1 ==
    {<<"s1", "auth", "example", "org", "">>,
     <<"S1", "Auth", "example", "org", "">>}

Qtypes == {"A", "TXT", "SOA"}

\* a request message
Request(opcode, question, extra) ==
    [NoMsg EXCEPT !.Opcode = opcode, !.Question = question, !.Extra = extra]

Questions(names, qtypes) ==
    {<<[Name |-> n, Qtype |-> t]>> : n \in names, t \in qtypes}

\* question sections with two questions: one of a name the server has
\* nothing for, of a subdomain with or without challenge values, or of the
\* server domain, followed by another of these
TwoQuestions ==
    LET q(n, t) == [Name |-> n, Qtype |-> t]
        www == q(<<"www", "example", "com", "">>, "A")
        s1 == q(<<"s1", "auth", "example", "org", "">>, "TXT")
        s3 == q(<<"s3", "auth", "example", "org", "">>, "TXT")
        apex == q(Domain, "A")
    IN  {<<s1, www>>, <<www, apex>>, <<apex, s3>>, <<s3, s1>>}

\* the requests: standard queries of every name and type without EDNS, TXT
\* queries of every name with EDNS version 0 and with EDNS version 1,
\* queries without a question or with two, and notifies without EDNS and
\* with EDNS version 0 and 1
DNSRequests ==
    {Request("QUERY", q, <<>>) :
        q \in Questions(QueryNames, Qtypes) \cup {<<>>} \cup TwoQuestions}
    \cup {Request("QUERY", q, <<OPT(0, 4096, FALSE)>>) :
             q \in Questions(QueryNames, {"TXT"})}
    \cup {Request("QUERY", q, <<OPT(1, 4096, FALSE)>>) :
             q \in Questions(QueryNames, {"TXT"}) \cup {<<>>}}
    \cup {Request("NOTIFY", q, e) :
             q \in Questions({<<"s1", "auth", "example", "org", "">>}, {"TXT"}),
             e \in {<<>>, <<OPT(0, 4096, FALSE)>>, <<OPT(1, 4096, FALSE)>>}}

\* the /update requests of the identity u1 for its subdomain s1
UpdateRequests ==
    {r \in [Path : {"/update"},
            Method : {"POST", "GET"},
            XApiUser : {"u1"},
            XApiKey : {"k1"},
            RemoteAddr : {"10.0.0.5:1234"},
            XForwardedFor : {""},
            Body : {PostBody.S1, PostBody.S1Txt2, PostBody.S1Txt3}] :
        r.Method = "GET" => r.Body = PostBody.S1}

\* the DNS server takes a request and computes the response
HandleRequest(r, fail) ==
    /\ dnsQ = NoMsg
    /\ mutex = None
    /\ dnsQ' = r
    /\ dnsR' = handleRequest(r, txt, keyAuth, fail)
    /\ UNCHANGED <<storeVars, procVars, ghostVars, httpVars, aclVars, keyAuth>>

\* a server that sends the responses of rcode success only
WriteMsgOnSuccess ==
    /\ dnsQ # NoMsg
    /\ dnsR # NoMsg
    /\ dnsR.Rcode = RcodeSuccess
    /\ dnsQ' = NoMsg
    /\ dnsR' = NoMsg
    /\ UNCHANGED <<storeVars, procVars, ghostVars, httpVars, aclVars, keyAuth>>

\* w.WriteMsg(m): the response leaves the server
WriteMsg ==
    /\ dnsQ # NoMsg
    /\ dnsR # NoMsg
    /\ dnsQ' = NoMsg
    /\ dnsR' = NoMsg
    /\ UNCHANGED <<storeVars, procVars, ghostVars, httpVars, aclVars, keyAuth>>

\* the holder of the server sets the challenge value of its own certificate
SetPersonalKeyAuth(v) ==
    /\ keyAuth # v
    /\ keyAuth' = v
    /\ UNCHANGED <<storeVars, procVars, ghostVars, httpVars, aclVars,
                   dnsQ, dnsR>>

\* the tables of a store without a registration
NoUsers == [records |-> {}, txt |-> <<>>]

\* the store is empty or holds the two identities of the API specification
InitDNS ==
    /\ engine = "sqlite3"
    /\ \E db \in {NoUsers, TwoUsers} :
          /\ records = db.records
          /\ txt = db.txt
    /\ mutex = None
    /\ now = 1
    /\ pc = Idle
    /\ op = NoneOf
    /\ arg = NoCallOf
    /\ ret = NoCallOf
    /\ nUpd = 0
    /\ hist = [s \in SubPool |-> <<>>]
    /\ issued = {id \in Identities : \E r \in records : r.Username = id[1]}
    /\ useHeader = FALSE
    /\ HTTPIdle
    /\ prevRej = NoRejection
    /\ aclIn = None
    /\ aclOut = NoCheck
    /\ DNSIdle

NextDNS ==
    \/ \E r \in UpdateRequests : Receive(r)
    \/ \E fail \in BOOLEAN : AuthServeHTTP(fail)
    \/ UpdateServeHTTP
    \/ Finish
    \/ \E r \in DNSRequests, fail \in BOOLEAN : HandleRequest(r, fail)
    \/ WriteMsg
    \/ \E v \in {"", "keyauth1"} : SetPersonalKeyAuth(v)

SpecDNS == InitDNS /\ [][NextDNS]_vars

(***************************************************************************)
(* The two interfaces over time: /update requests of u1 next to TXT        *)
(* queries for its subdomain.                                              *)
(***************************************************************************)
\* standard TXT queries for s1 in both spellings, without EDNS and with
\* EDNS version 0, and for a name without a registration
VisibleRequests ==
    {Request("QUERY", q, e) :
        q \in Questions(NamesOfS1 \cup {<<"s3", "auth", "example", "org", "">>},
                        {"TXT"}),
        e \in {<<>>, <<OPT(0, 4096, FALSE)>>}}

NextVisible ==
    \/ \E r \in UpdateRequests : Receive(r)
    \/ \E fail \in BOOLEAN : AuthServeHTTP(fail)
    \/ UpdateServeHTTP
    \/ Finish
    \/ \E r \in VisibleRequests, fail \in BOOLEAN : HandleRequest(r, fail)
    \/ WriteMsg

\* the servers write the responses they have made
SpecVisible ==
    /\ InitDNS
    /\ [][NextVisible]_vars
    /\ WF_hpc(Finish)
    /\ WF_dnsQ(WriteMsg)

(***************************************************************************)
(* The store under contention: two workers call its four operations while  *)
(* the DNS server answers queries. handleRequest is taken in two steps     *)
(* here, the arrival of the message and the rest, because the read of the  *)
(* store inside it waits for the mutex. The scheduler is fair: a goroutine *)
(* that can run does run, and sync.Mutex hands the lock to a waiter that   *)
(* has been passed over (its starvation mode), so no waiter is passed over *)
(* for ever.                                                               *)
(***************************************************************************)
\* the most calls of Update in a run of this specification
MaxLiveUpdates == 1

\* the requests: TXT questions for a subdomain, for the own challenge and
\* for a name without records, an A question for a name the server does not
\* serve, and a TXT question with EDNS version 1
LiveRequests ==
    {Request("QUERY", q, <<>>) :
        q \in Questions({<<"s1", "auth", "example", "org", "">>,
                         <<"s3", "auth", "example", "org", "">>,
                         <<"_acme-challenge", "auth", "example", "org", "">>},
                        {"TXT"})
              \cup Questions({<<"www", "example", "com", "">>}, {"A"})}
    \cup {Request("QUERY", q, <<OPT(1, 4096, FALSE)>>) :
             q \in Questions({<<"s1", "auth", "example", "org", "">>}, {"TXT"})}

\* dns.Server hands a message to handleRequest
ServeDNS(r) ==
    /\ dnsQ = NoMsg
    /\ dnsQ' = r
    /\ dnsR' = NoMsg
    /\ UNCHANGED <<storeVars, procVars, ghostVars, httpVars, aclVars, keyAuth>>

\* handleRequest up to the call of w.WriteMsg: a read of the store, if the
\* request needs one, takes the mutex and gives it back
HandleRequestLocked(fail) ==
    /\ dnsQ # NoMsg
    /\ dnsR = NoMsg
    /\ \E m \in {handleRequest(dnsQ, txt, keyAuth, fail)} :
          /\ m.reads > 0 => mutex = None
          /\ m.reads = 0 => ~fail
          /\ dnsR' = m
    /\ UNCHANGED <<storeVars, procVars, ghostVars, httpVars, aclVars, keyAuth,
                   dnsQ>>

\* a worker runs the operation it holds the lock for, up to its return
Operate(w) ==
    \/ \E f \in Failures : Register(w, "u1", "k1", "s1", f)
    \/ \E fail \in BOOLEAN : GetByUsername(w, fail)
    \/ \E fail \in BOOLEAN : GetTXTForDomain(w, fail)
    \/ Update(w)

InitLive ==
    /\ Init
    /\ engine = "sqlite3"

NextLive ==
    \/ \E w \in Workers :
          \/ CallRegister(w, <<>>)
          \/ CallGetByUsername(w, "u1")
          \/ CallGetTXTForDomain(w, "s1")
          \/ CallUpdate(w, "s1", MaxLiveUpdates)
          \/ Lock(w)
          \/ Operate(w)
          \/ Return(w)
    \/ \E r \in LiveRequests : ServeDNS(r)
    \/ \E fail \in BOOLEAN : HandleRequestLocked(fail)
    \/ WriteMsg

\* the fairness of the scheduler and of the mutex; each of these steps
\* changes the variable of its subscript.  The goroutine of a DNS message
\* is strongly fair as the waiters of the mutex are: its condition is
\* SF_dnsR(\E fail \in BOOLEAN : HandleRequestLocked(fail)) written out,
\* the step counted as possible only while the mutex is free
FairLive ==
    /\ \A w \in Workers :
          /\ SF_pc(Lock(w))
          /\ WF_pc(Operate(w))
          /\ WF_pc(Return(w))
    /\ \/ <>[](~(dnsQ # NoMsg /\ dnsR = NoMsg /\ mutex = None))
       \/ []<><<dnsR = NoMsg /\ dnsR' # NoMsg>>_dnsR
    /\ WF_dnsQ(WriteMsg)

SpecLive == InitLive /\ [][NextLive]_vars /\ FairLive

(***************************************************************************)
(* Properties of the store.                                                *)
(***************************************************************************)
Registered(s) == \E r \in records : r.Subdomain = s

TwoSlots(s) == Cardinality(SlotRows(txt, s)) = 2

\* C1: depth-2 FIFO rotation. For a registered subdomain with its two slot
\* rows, after any sequence of successful Updates with distinct values, under
\* any non-decreasing one-second timestamps, GetChallengeValues is exactly
\* the set of the last two values written ({v1} after one Update).
FIFORotation ==
    \A s \in SubPool :
        (Registered(s) /\ TwoSlots(s) /\ hist[s] # <<>>)
            => GetChallengeValues(txt, s) = Range(hist[s])

\* C2: slot-count invariant. In every reachable state every subdomain with a
\* credential row has exactly two slot rows, and no subdomain has one or more
\* than two, also when single storage statements fail.
SlotCountInvariant ==
    /\ \A r \in records : TwoSlots(r.Subdomain)
    /\ \A s \in SubPool : Cardinality(SlotRows(txt, s)) \in {0, 2}

\* C3: Register is all-or-nothing. A Register that returns success has stored
\* the credential row and both slot rows; a Register that returns an error
\* has stored nothing.
RegisterAllOrNothing ==
    \A w \in Workers :
        (pc[w] = "ret" /\ op[w] = "Register") =>
            /\ ret[w].err = None =>
                  /\ \E r \in records : r.Username = ret[w].user.Username
                  /\ TwoSlots(ret[w].user.Subdomain)
            /\ ret[w].err # None => ~ret[w].stored

\* two Updates of the same subdomain that overlapped and have both returned
\* success
ConcurrentPair(w, v) ==
    /\ w # v
    /\ pc[w] = "ret" /\ op[w] = "Update" /\ ret[w].err = None
    /\ pc[v] = "ret" /\ op[v] = "Update" /\ ret[v].err = None
    /\ arg[w].Subdomain = arg[v].Subdomain
    /\ arg[w].conc \/ arg[v].conc

\* C4: no lost update. After two concurrent Updates of one registered
\* subdomain (two slot rows) with distinct values a and b have both completed,
\* in either order of lock acquisition and whatever second they read,
\* GetChallengeValues is exactly {a, b}.
NoLostUpdate ==
    \A w, v \in Workers :
        (/\ ConcurrentPair(w, v)
         /\ Registered(arg[w].Subdomain)
         /\ TwoSlots(arg[w].Subdomain))
            => GetChallengeValues(txt, arg[w].Subdomain)
                   = {arg[w].Value, arg[v].Value}

\* C5: mutual exclusion. At no time are two store operations between Lock and
\* Unlock, and the operation that is there holds the mutex.
MutualExclusion ==
    /\ Cardinality({w \in Workers : pc[w] = "locked"}) <= 1
    /\ \A w \in Workers : pc[w] = "locked" => mutex = w

\* one operation is inside its storage section while another one waits
MutualExclusionWitness ==
    \E w, v \in Workers :
        /\ pc[w] = "locked" /\ op[w] = "Update"
        /\ pc[v] = "lock" /\ op[v] \in {"Register", "GetByUsername",
                                         "GetTXTForDomain"}

(***************************************************************************)
(* Properties of the auth gate.                                            *)
(***************************************************************************)
\* the middleware has rejected the request being served
Rejected == hpc = "done" /\ why # None

\* the middleware has called the update handler for the request being served
Invoked == hpc = "handler" \/ (hpc = "done" /\ why = None)

\* the four conditions of a write by user u with request r
Authorised(r, u) ==
    /\ u.Username = r.XApiUser
    /\ CorrectPassword(r.XApiKey, u.Password)
    /\ updateAllowedFromIP(useHeader, r, u)
    /\ Decode(r.Body).post.Subdomain = u.Subdomain

\* C6: write authorization. The update handler is invoked only for a request
\* whose X-Api-User is an existing identity, whose X-Api-Key verifies against
\* its stored hash, whose source address passes its allow-list and whose body
\* names its own subdomain; only slots of that subdomain change, and without
\* an invocation no slot changes.
WriteAuthorization ==
    /\ Invoked =>
          /\ ctx # NoContext
          /\ \E u \in records :
                /\ Authorised(req, u)
                /\ \A i \in DOMAIN txt :
                      txt[i] # snap.txt[i] => txt[i].Subdomain = u.Subdomain
    /\ (hpc = "auth" \/ Rejected) => txt = snap.txt

\* an identity with an allow-list has overwritten a slot of its own subdomain
WriteAuthorizationWitness ==
    /\ hpc = "done" /\ why = None
    /\ resp.status = StatusOK
    /\ req.XApiUser = "u2"
    /\ txt # snap.txt

\* C7: every rejection by the gate answers 401 with the body
\* {"error": "forbidden"}, does not invoke the update handler and leaves the
\* credential and slot rows as they were.
RejectionIsForbidden ==
    Rejected =>
        /\ resp.status = 401
        /\ resp.body = "{\"error\": \"forbidden\"}"
        /\ ctx = NoContext
        /\ records = snap.records
        /\ txt = snap.txt

\* a request with valid credentials from a permitted address is rejected for
\* naming another subdomain
RejectionIsForbiddenWitness ==
    /\ Rejected
    /\ why = "subdomain_mismatch"
    /\ resp.status = 401

\* C8: anti-enumeration. Two rejected requests get the same response (status,
\* headers, body) whatever the causes of the two rejections were.
AntiEnumeration ==
    (Rejected /\ prevRej # NoRejection) => resp = prevRej.resp

\* a rejection for a wrong secret after a rejection for an unknown identity
AntiEnumerationWitness ==
    /\ Rejected
    /\ why = "invalid_password"
    /\ prevRej.cause = "invalid_username"
    /\ resp = prevRej.resp

\* the middleware is through with the request being served
AuthDone == hpc \in {"handler", "done"}

\* the headers pass getValidUsername and validKey
WellFormed(r) == getValidUsername(r.XApiUser).err = None /\ validKey(r.XApiKey)

\* C9 as stated: every authentication attempt makes exactly one bcrypt
\* comparison, never zero and never two.
ExactlyOneComparison == AuthDone => Len(ncmp) = 1

\* C9, amended: an attempt whose X-Api-User is a UUID and whose X-Api-Key is
\* a well-formed key makes exactly one bcrypt comparison, against the stored
\* hash when the lookup finds the identity and against the placeholder hash
\* when it does not; an attempt with a malformed header makes none.
OneComparisonWhenWellFormed ==
    AuthDone =>
        IF WellFormed(req)
        THEN /\ Len(ncmp) = 1
             /\ \A u \in records :
                   (u.Username = req.XApiUser /\ why # "invalid_username")
                       => ncmp[1] = u.Password
             /\ ((\A u \in records : u.Username # req.XApiUser)
                    \/ why = "invalid_username")
                       => ncmp[1] = PlaceholderHash
        ELSE ncmp = <<>>

\* a well-formed attempt for an identity that does not exist has compared
\* with the placeholder
OneComparisonWitness ==
    /\ AuthDone
    /\ WellFormed(req)
    /\ \A u \in records : u.Username # req.XApiUser
    /\ ncmp = <<PlaceholderHash>>

(***************************************************************************)
(* Properties of the allow-list check.                                     *)
(***************************************************************************)
\* the addresses of the model that lie in the networks of the model
InNetwork(cidr, addr) ==
    <<cidr, addr>> \in {<<"10.0.0.0/24", "10.0.0.5">>,
                        <<"192.168.1.2/32", "192.168.1.2">>,
                        <<"[::1]/128", "::1">>}

InSomeNetwork(list, addr) == \E i \in DOMAIN list : InNetwork(list[i], addr)

\* C10 as stated: IsPermitted is true if and only if the allow-list is empty
\* or the address lies in one of its networks.
IsPermittedIffEmptyOrInNetwork ==
    aclOut.done =>
        (aclOut.allowed <=>
            (aclIn.allow = <<>> \/ InSomeNetwork(aclIn.allow, aclIn.ip)))

\* C10, amended: IsPermitted is true if and only if the allow-list has no
\* entry that is a network, or the address lies in one of its networks; so it
\* is true for every address string with an empty list, and false for an
\* unparseable or absent address with a list that has a network.
IsPermittedIffNoNetworkOrInNetwork ==
    aclOut.done =>
        LET noNetwork == \A i \in DOMAIN aclIn.allow : aclIn.allow[i] = "invalid"
            expected == noNetwork \/ InSomeNetwork(aclIn.allow, aclIn.ip)
        IN  /\ aclOut.allowed <=> expected
            /\ aclOut.contains <=> expected
            /\ aclIn.allow = <<>> => aclOut.allowed
            /\ (~noNetwork /\ aclIn.ip \in {"invalid", ""}) => ~aclOut.allowed

\* a list with a network and an entry that is none, and an address inside the
\* network
IsPermittedWitness ==
    /\ aclOut.done
    /\ aclIn.allow = <<"invalid", "[::1]/128">>
    /\ aclIn.ip = "::1"
    /\ aclOut.allowed

(***************************************************************************)
(* Further properties of the store.                                        *)
(***************************************************************************)
\* C12: after a Register that returned (identity, secret, subdomain) without
\* an error, every GetByUsername(identity) whose own query does not fail
\* returns no error, that subdomain, and a hash the secret verifies against.
CredentialRoundTrip ==
    [][\A w \in Workers :
          (/\ pc[w] = "locked"
           /\ op[w] = "GetByUsername"
           /\ pc'[w] = "ret"
           /\ ret'[w].err # "query error")
          => \A id \in issued :
                id[1] = arg[w].Username =>
                    /\ ret'[w].err = None
                    /\ ret'[w].user.Subdomain = id[2]
                    /\ CorrectPassword(id[3], ret'[w].user.Password)]_vars

\* the subdomain was never handed out by Register
NeverRegistered(sub) == \A id \in issued : id[2] # SanitizeString(sub)

\* C13: GetTXTForDomain of a subdomain that was never registered returns an
\* empty list and no error in every store state, unless the query itself
\* fails in the storage.
UnknownSubdomainIsEmpty ==
    [][\A w \in Workers :
          (/\ pc[w] = "locked"
           /\ op[w] = "GetTXTForDomain"
           /\ pc'[w] = "ret"
           /\ ret'[w].err # "query error"
           /\ NeverRegistered(arg[w].Domain))
          => /\ ret'[w].txts = <<>>
             /\ ret'[w].err = None]_vars

\* the query of a subdomain never registered has returned, while the store
\* holds the rows of another subdomain
UnknownSubdomainWitness ==
    \E w \in Workers :
        /\ pc[w] = "ret"
        /\ op[w] = "GetTXTForDomain"
        /\ NeverRegistered(arg[w].Domain)
        /\ records # {}
        /\ txt # <<>>
        /\ ret[w] = [txts |-> <<>>, err |-> None]

\* C14: the list GetTXTForDomain returns has at most two elements and holds no
\* empty string; for a registered subdomain without an update it is empty,
\* and after exactly one update it has exactly one element.
ChallengeValuesAtMostTwoNonEmpty ==
    [][\A w \in Workers :
          (/\ pc[w] = "locked"
           /\ op[w] = "GetTXTForDomain"
           /\ pc'[w] = "ret"
           /\ ret'[w].err = None)
          => LET txts == ret'[w].txts
                 sub == SanitizeString(arg[w].Domain)
             IN  /\ Len(txts) <= 2
                 /\ \A i \in DOMAIN txts : txts[i] # ""
                 /\ (~NeverRegistered(sub) /\ hist[sub] = <<>>) => txts = <<>>
                 /\ Len(hist[sub]) = 1 => Len(txts) = 1]_vars

\* C15: Update for a subdomain that has no slot row leaves every row of both
\* tables as it was, and returns no error unless the statement itself fails
\* in the storage.
UpdateOfUnknownSubdomainIsNoOp ==
    [][\A w \in Workers :
          (/\ pc[w] = "locked"
           /\ op[w] = "Update"
           /\ pc'[w] = "ret"
           /\ SlotRows(txt, arg[w].Subdomain) = {})
          => /\ records' = records
             /\ txt' = txt
             /\ ret'[w].err \in {None, "exec error"}]_vars

\* an Update of a subdomain without slot rows has returned no error, while
\* the store holds a credential and the slots of another subdomain
UpdateOfUnknownSubdomainWitness ==
    \E w \in Workers :
        /\ pc[w] = "ret"
        /\ op[w] = "Update"
        /\ ret[w].err = None
        /\ SlotRows(txt, arg[w].Subdomain) = {}
        /\ records # {}
        /\ \E s \in SubPool : TwoSlots(s)

\* the slot rows of the subdomain all carry the same timestamp
SameTimestamp(t, sub) ==
    \A i, j \in SlotRows(t, sub) : t[i].LastUpdate = t[j].LastUpdate

\* C16: deterministic tie-break. Whenever both slots of a subdomain carry the
\* same timestamp, a successful Update overwrites the slot with the lowest row
\* identifier, so the same Update from the same tables always ends in the
\* same tables.
DeterministicTieBreak ==
    [][\A w \in Workers :
          (/\ pc[w] = "locked"
           /\ op[w] = "Update"
           /\ pc'[w] = "ret"
           /\ ret'[w].err = None
           /\ TwoSlots(arg[w].Subdomain)
           /\ SameTimestamp(txt, arg[w].Subdomain))
          => LET lowest == CHOOSE i \in SlotRows(txt, arg[w].Subdomain) :
                              \A j \in SlotRows(txt, arg[w].Subdomain) : i <= j
             IN  txt' = UpdateRow(txt, lowest, arg[w].Value, now)]_vars

(***************************************************************************)
(* Properties of the DNS server.                                           *)
(***************************************************************************)
\* a standard query with the one question (name, qtype): opcode QUERY, and
\* no EDNS or EDNS version 0
StandardQuery(m, name, qtype) ==
    /\ m.Opcode = "QUERY"
    /\ m.Question = <<[Name |-> name, Qtype |-> qtype]>>
    /\ m.Extra # <<>> => m.Extra[1].Version = 0

\* the server takes the request of a step, and its read of the store, if it
\* makes one, does not fail
Answers ==
    /\ dnsQ = NoMsg
    /\ dnsQ' # NoMsg
    /\ dnsR' = handleRequest(dnsQ', txt, keyAuth, FALSE)

\* the texts of the TXT records of an answer section
TXTValues(m) ==
    {m.Answer[i].Data[1] : i \in {j \in DOMAIN m.Answer :
                                     m.Answer[j].Rrtype = "TXT"}}

\* C17: end-to-end visibility. Once POST /update has answered 200 for value
\* v on the registered subdomain s1, every later TXT query for
\* s1.<server domain> whose read of the store does not fail returns, until
\* two further updates of s1 have succeeded, a TXT record with text v, rcode
\* success and the authoritative flag; after the first update the answer
\* holds exactly one TXT record.
EndToEndVisibility ==
    [][\A n \in NamesOfS1 :
          (Answers /\ StandardQuery(dnsQ', n, "TXT") /\ hist["s1"] # <<>>)
          => /\ Range(hist["s1"]) \subseteq TXTValues(dnsR')
             /\ dnsR'.Rcode = RcodeSuccess
             /\ dnsR'.Authoritative
             /\ Len(hist["s1"]) = 1 => Len(dnsR'.Answer) = 1]_vars

\* the names asked for that are neither the server domain nor a name with
\* static records, and have neither as a suffix
UnrelatedNames ==
    {<<"s1", "example", "com", "">>,
     <<"www", "example", "com", "">>,
     <<"example", "org", "">>,
     <<"", "">>}

\* C18: for every query type and every store state, a standard query with
\* one question whose name is unrelated to the server domain and to the
\* static records gets rcode name error, the authoritative flag unset, an
\* empty answer section and no SOA in the authority section.
UnrelatedNameIsNameError ==
    [][\A n \in UnrelatedNames, t \in Qtypes :
          (dnsQ = NoMsg /\ StandardQuery(dnsQ', n, t))
          => /\ dnsR'.Rcode = RcodeNameError
             /\ ~dnsR'.Authoritative
             /\ dnsR'.Answer = <<>>
             /\ dnsR'.Ns = <<>>]_vars

\* _acme-challenge.<server domain>, in both spellings
OwnChallengeNames ==
    {<<"_acme-challenge", "auth", "example", "org", "">>,
     <<"_ACME-Challenge", "Auth", "example", "org", "">>}

\* C19: a standard TXT query for _acme-challenge.<server domain> gets rcode
\* success and one TXT record that carries the server's current challenge
\* value, in every state of the store and also when a read of the store
\* would fail; the store is not read.
OwnChallengeAlwaysAnswered ==
    [][\A n \in OwnChallengeNames :
          (dnsQ = NoMsg /\ StandardQuery(dnsQ', n, "TXT"))
          => /\ dnsR'.Response
             /\ dnsR'.Rcode = RcodeSuccess
             /\ dnsR'.Answer = <<TXT(n, keyAuth)>>
             /\ dnsR'.reads = 0]_vars

\* the own challenge has been answered with a value set after the start,
\* while the store holds challenge values of a subdomain
OwnChallengeWitness ==
    /\ \E n \in OwnChallengeNames : StandardQuery(dnsQ, n, "TXT")
    /\ keyAuth = "keyauth1"
    /\ dnsR.Rcode = RcodeSuccess
    /\ Len(dnsR.Answer) = 1
    /\ dnsR.Answer[1].Data = <<"keyauth1">>
    /\ GetChallengeValues(txt, "s1") # {}

\* C20: a request that carries an OPT record with an EDNS version other than
\* 0 is answered with rcode BADVERS and one OPT record that advertises a UDP
\* payload size of 512 bytes, and nothing else: no question is answered, the
\* answer and authority sections are empty, the authoritative flag is unset
\* and the store is not read.
BadVersionIsRefused ==
    [][(/\ dnsQ = NoMsg
        /\ dnsQ' # NoMsg
        /\ dnsQ'.Extra # <<>>
        /\ dnsQ'.Extra[1].Version # 0)
       => /\ dnsR'.Response
          /\ dnsR'.Rcode = RcodeBadVers
          /\ Len(dnsR'.Extra) = 1
          /\ dnsR'.Extra[1].Rrtype = "OPT"
          /\ dnsR'.Extra[1].UDPSize = EdnsUDPSize
          /\ dnsR'.Answer = <<>>
          /\ dnsR'.Ns = <<>>
          /\ ~dnsR'.Authoritative
          /\ dnsR'.reads = 0]_vars

\* a TXT query with EDNS version 1 for a subdomain that holds a challenge
\* value has been refused
BadVersionWitness ==
    /\ dnsQ.Opcode = "QUERY"
    /\ dnsQ.Extra # <<>>
    /\ dnsQ.Extra[1].Version = 1
    /\ \E n \in NamesOfS1 : dnsQ.Question = <<[Name |-> n, Qtype |-> "TXT"]>>
    /\ GetChallengeValues(txt, "s1") # {}
    /\ dnsR.Rcode = RcodeBadVers
    /\ dnsR.Answer = <<>>
    /\ dnsR.Extra = <<OPT(0, EdnsUDPSize, FALSE)>>

\* the allow-list has no entry that is a network
NoNetwork(list) == \A i \in DOMAIN list : list[i] = "invalid"

\* C11 as stated: IsPermittedAny is true if and only if the candidate list and
\* the allow-list are both empty, or some candidate is permitted by
\* IsPermitted; a header that yields no address is never permitted for an
\* identity with a non-empty allow-list.
IsPermittedAnyIffBothEmptyOrSomePermitted ==
    aclOut.done =>
        /\ aclOut.allowedList <=>
              \/ aclIn.ips = <<>> /\ aclIn.allow = <<>>
              \/ \E i \in DOMAIN aclIn.ips :
                    IsAllowedFrom(aclIn.allow, aclIn.ips[i])
        /\ (getIPListFromHeader(aclIn.header) = <<>> /\ aclIn.allow # <<>>)
              => ~aclOut.fromHeader

\* C11, amended: IsPermittedAny is true if and only if the candidate list is
\* empty and the allow-list has no entry that is a network, or some candidate
\* is permitted by IsPermitted; a header that yields no address is permitted
\* exactly for the identities whose allow-list has no network.
IsPermittedAnyIffNoNetworkOrSomePermitted ==
    aclOut.done =>
        LET permitted(addr) ==
                NoNetwork(aclIn.allow) \/ InSomeNetwork(aclIn.allow, addr)
            expected ==
                \/ aclIn.ips = <<>> /\ NoNetwork(aclIn.allow)
                \/ \E i \in DOMAIN aclIn.ips : permitted(aclIn.ips[i])
        IN  /\ aclOut.allowedList <=> expected
            /\ aclOut.containsAny <=> expected
            /\ getIPListFromHeader(aclIn.header) = <<>>
                  => (aclOut.fromHeader <=> NoNetwork(aclIn.allow))
            /\ (aclIn.header \in {"", ",", " "} /\ ~NoNetwork(aclIn.allow))
                  => ~aclOut.fromHeader

\* two candidates of which the second lies in the one network of the list,
\* and a header that names no address
IsPermittedAnyWitness ==
    /\ aclOut.done
    /\ aclIn.allow = <<"10.0.0.0/24">>
    /\ aclIn.ips = <<"10.0.1.5", "10.0.0.5">>
    /\ aclIn.header = ","
    /\ aclOut.allowedList
    /\ ~aclOut.fromHeader

(***************************************************************************)
(* Further properties of the DNS server.                                   *)
(***************************************************************************)
\* the server takes a request of opcode QUERY that reaches readQuery: it has
\* no OPT record, or one of EDNS version 0
AnswersQuery ==
    /\ dnsQ = NoMsg
    /\ dnsQ' # NoMsg
    /\ dnsQ'.Opcode = "QUERY"
    /\ dnsQ'.Extra # <<>> => dnsQ'.Extra[1].Version = 0

\* C21: for every answered query, whatever the number of its questions, the
\* authoritative flag of the response is set if and only if one of the
\* questions the response answers is authoritative, and the SOA record is in
\* the authority section if and only if the response is authoritative and
\* its response code is name error; the authority section holds nothing
\* else.
AuthoritativeFlagAndSOA ==
    [][AnswersQuery =>
          /\ dnsR'.Authoritative <=>
                \E i \in DOMAIN dnsR'.Question :
                    isAuthoritative(dnsR'.Question[i])
          /\ dnsR'.Ns = IF dnsR'.Authoritative /\ dnsR'.Rcode = RcodeNameError
                        THEN <<SOA>> ELSE <<>>]_vars

\* a query with two questions, the first for a subdomain under the server
\* domain that holds no value, has been answered with the SOA record
AuthoritativeFlagAndSOAWitness ==
    /\ dnsQ.Opcode = "QUERY"
    /\ Len(dnsQ.Question) = 2
    /\ dnsR.Authoritative
    /\ dnsR.Rcode = RcodeNameError
    /\ dnsR.Answer = <<>>
    /\ dnsR.Ns = <<SOA>>

\* the names the server answers for by exact match: the server domain and
\* the owners of the static records
ServedNames ==
    {Domain,
     <<"ns1", "auth", "example", "org", "">>,
     <<"cn", "example", "org", "">>}

\* C22 as stated: for a question that produces no records the response code
\* is name error, unless the question is authoritative (by exact or suffix
\* match against the server domain or a static-record name) or is the
\* own-challenge name, in which case it is success.
NameErrorUnlessAuthoritative ==
    [][(AnswersQuery /\ Len(dnsR'.Question) = 1 /\ dnsR'.Answer = <<>>) =>
          dnsR'.Rcode =
              IF \/ isAuthoritative(dnsR'.Question[1])
                 \/ dnsR'.Question[1].Name \in OwnChallengeNames
              THEN RcodeSuccess ELSE RcodeNameError]_vars

\* C22, amended: for a question that produces no records the response code
\* is name error, unless the name of the question is the server domain or a
\* static-record name itself (an exact match, letter case aside) or is the
\* own-challenge name, in which case it is success; a name that has one of
\* them as a proper suffix only gets name error.
NameErrorUnlessServedName ==
    [][(AnswersQuery /\ Len(dnsR'.Question) = 1 /\ dnsR'.Answer = <<>>) =>
          dnsR'.Rcode =
              IF \/ ToLower(dnsR'.Question[1].Name) \in ServedNames
                 \/ dnsR'.Question[1].Name \in OwnChallengeNames
              THEN RcodeSuccess ELSE RcodeNameError]_vars

\* a TXT question for a subdomain under the server domain that holds no
\* value has produced no record and got name error, while another subdomain
\* holds a value
NameErrorWitness ==
    /\ StandardQuery(dnsQ, <<"s3", "auth", "example", "org", "">>, "TXT")
    /\ GetChallengeValues(txt, "s1") # {}
    /\ dnsR.Answer = <<>>
    /\ dnsR.Rcode = RcodeNameError
    /\ dnsR.Authoritative

\* C23: whenever records were produced for a query, the response code is
\* success: for a request with any number of questions, a response with a
\* non-empty answer section never carries name error, and so never carries
\* the SOA record in its authority section.
RecordsMeanSuccess ==
    [][(AnswersQuery /\ dnsR'.Answer # <<>>) =>
          /\ dnsR'.Rcode = RcodeSuccess
          /\ dnsR'.Ns = <<>>]_vars

\* a request with two questions, a TXT question for a subdomain that holds
\* a value and a question for a name the server has nothing for, has been
\* answered with the value and success
RecordsMeanSuccessWitness ==
    /\ dnsQ.Opcode = "QUERY"
    /\ Len(dnsQ.Question) = 2
    /\ dnsQ.Question[1].Name = <<"s1", "auth", "example", "org", "">>
    /\ dnsQ.Question[2].Name = <<"www", "example", "com", "">>
    /\ TXTValues(dnsR) # {}
    /\ dnsR.Rcode = RcodeSuccess

(***************************************************************************)
(* Properties of the update handler.                                       *)
(***************************************************************************)
\* the challenge values of the model that have 43 characters, all of the
\* alphabet A-Z a-z 0-9 _ -
ValidTXTs == {TXTS[i] : i \in DOMAIN TXTS}

\* the handler has answered the request the middleware let through
Handled == hpc = "done" /\ why = None

\* C24: an authenticated POST /update whose txt value is not 43 characters
\* of the alphabet (42 or 44 characters, empty, missing, or 43 characters
\* with one outside the alphabet) is answered 400 with the error bad_txt and
\* changes no slot; so every slot value is empty or a valid value.
BadTXTIsRejected ==
    /\ (Handled /\ req.Method = "POST"
            /\ Decode(req.Body).post.Value \notin ValidTXTs) =>
          /\ resp.status = 400
          /\ resp.body = "{\"error\": \"bad_txt\"}"
          /\ txt = snap.txt
    /\ \A i \in DOMAIN txt : txt[i].Value \in ValidTXTs \cup {""}

\* a value of 43 characters with one outside the alphabet has been refused
\* for an identity whose subdomain holds a value
BadTXTWitness ==
    /\ Handled
    /\ req.Method = "POST"
    /\ req.Body = PostBody.S1Txt43x
    /\ resp.status = 400
    /\ GetChallengeValues(txt, "s1") # {}

\* C25: when db.Update fails with a storage error during an authorized,
\* valid POST /update, the handler answers 500 with the error db_error, has
\* called db.Update once only, and the challenge values of every subdomain
\* are those of before the request.
StorageFailureIs500 ==
    (Handled /\ upds # <<>> /\ upds[1] # None) =>
        /\ resp.status = 500
        /\ resp.body = "{\"error\": \"db_error\"}"
        /\ Len(upds) = 1
        /\ \A sub \in SubPool :
              GetChallengeValues(txt, sub) = GetChallengeValues(snap.txt, sub)

\* the update of a subdomain that holds a value has failed in the store
StorageFailureWitness ==
    /\ Handled
    /\ req.Method = "POST"
    /\ upds = <<"exec error">>
    /\ resp.status = 500
    /\ GetChallengeValues(txt, ctx.Subdomain) # {}

(***************************************************************************)
(* Properties of the routes /register and /health.                         *)
(***************************************************************************)
\* a request to the path has been answered
Served(path) == hpc = "done" /\ req.Path = path

\* the bodies whose allowfrom list has an entry that is no CIDR network
BadAllowFromBodies == {RegBody.Invalid, RegBody.NetAInvalid, RegBody.InvalidV6}

\* C26: POST /register whose allowfrom list holds an entry that fails CIDR
\* parsing (brackets of an IPv6 address removed first) is answered 400 with
\* the error invalid_allowfrom_cidr and creates no credential row and no
\* slot row, also when other entries of the list are networks; a list whose
\* only entry is a bracketed IPv6 network is not refused.
BadAllowFromIsRejected ==
    /\ (Served("/register") /\ req.Method = "POST"
            /\ req.Body \in BadAllowFromBodies) =>
          /\ resp.status = 400
          /\ resp.body = "{\"error\": \"invalid_allowfrom_cidr\"}"
          /\ records = snap.records
          /\ txt = snap.txt
    /\ (Served("/register") /\ req.Method = "POST" /\ req.Body = RegBody.V6) =>
          resp.status # 400

\* a list of a network and an entry that is none has been refused by a
\* server that holds a registration
BadAllowFromWitness ==
    /\ Served("/register")
    /\ req.Method = "POST"
    /\ req.Body = RegBody.NetAInvalid
    /\ resp.status = 400
    /\ records # {}

\* C27: every request to /register or /update whose method is not POST is
\* answered 405 with the header Allow: POST and leaves the store as it was,
\* whatever credentials it carries or lacks; every request to /health whose
\* method is not GET is answered 405 with Allow: GET.
MethodNotAllowed ==
    /\ ((Served("/register") \/ Served("/update")) /\ req.Method # "POST") =>
          /\ resp.status = 405
          /\ resp.header.Allow = "POST"
          /\ records = snap.records
          /\ txt = snap.txt
    /\ (Served("/health") /\ req.Method # "GET") =>
          /\ resp.status = 405
          /\ resp.header.Allow = "GET"

(***************************************************************************)
(* The frame of the store operations.                                      *)
(***************************************************************************)
\* worker w leaves the storage section of operation o with this step
Returns(w, o) == pc[w] = "locked" /\ op[w] = o /\ pc'[w] = "ret"

\* the table with value and timestamp of row i set, everything else as it is
OneRowSet(t, i, value, timenow) ==
    [j \in DOMAIN t |->
        IF j = i
        THEN [Subdomain |-> t[j].Subdomain, Value |-> value,
              LastUpdate |-> timenow]
        ELSE t[j]]

\* Lookup and GetChallengeValues change nothing, and no credential row is
\* modified or deleted by any step
ReadsAndCredentialsFrame ==
    /\ \A w \in Workers :
          (Returns(w, "GetByUsername") \/ Returns(w, "GetTXTForDomain"))
              => (records' = records /\ txt' = txt)
    /\ \A r \in records : r \in records'

\* C28 as stated: a successful Update sets the value and timestamp of
\* exactly one slot row of the named subdomain and changes nothing else;
\* Lookup and GetChallengeValues change nothing; a credential, once created,
\* is never modified or deleted.
StoreFrame ==
    [][/\ \A w \in Workers :
             (Returns(w, "Update") /\ ret'[w].err = None) =>
                 /\ records' = records
                 /\ \E i \in SlotRows(txt, arg[w].Subdomain) :
                       txt' = OneRowSet(txt, i, arg[w].Value, now)
       /\ ReadsAndCredentialsFrame]_vars

\* C28, amended: a successful Update of a subdomain that has slot rows sets
\* the value and timestamp of exactly one of them and changes nothing else,
\* and a successful Update of a subdomain without slot rows changes nothing
\* at all; Lookup and GetChallengeValues change nothing; a credential, once
\* created, is never modified or deleted.
StoreFrameWithSlotRows ==
    [][/\ \A w \in Workers :
             (Returns(w, "Update") /\ ret'[w].err = None) =>
                 /\ records' = records
                 /\ IF SlotRows(txt, arg[w].Subdomain) = {}
                    THEN txt' = txt
                    ELSE \E i \in SlotRows(txt, arg[w].Subdomain) :
                            txt' = OneRowSet(txt, i, arg[w].Value, now)
       /\ ReadsAndCredentialsFrame]_vars

\* an Update has set one slot of its subdomain, next to the credential and
\* the untouched slots of another subdomain
StoreFrameWitness ==
    \E w \in Workers :
        /\ pc[w] = "ret" /\ op[w] = "Update" /\ ret[w].err = None
        /\ GetChallengeValues(txt, arg[w].Subdomain) = {arg[w].Value}
        /\ \E s \in SubPool \ {arg[w].Subdomain} :
              /\ Registered(s)
              /\ TwoSlots(s)
              /\ GetChallengeValues(txt, s) = {}

(***************************************************************************)
(* Uniqueness of the credentials.                                          *)
(***************************************************************************)
\* the handler of /register answers a POST with this step
Registers ==
    /\ hpc = "idle"
    /\ hpc' = "done"
    /\ req'.Path = "/register"
    /\ req'.Method = "POST"

\* what NewACMETxt generated collides with no credential row
Fresh(g, recs) ==
    \A r \in recs : r.Username # g[1] /\ r.Subdomain # g[3]

\* C29: no two credential rows share an identity and no two share a
\* subdomain; a Register whose generated identity or subdomain is that of an
\* existing row fails (the registration a 201 response tells collides with
\* no row), and a Register that fails adds no credential row and no slot
\* row.
UniqueCredentials ==
    [][/\ \A r1, r2 \in records' :
             (r1.Username = r2.Username \/ r1.Subdomain = r2.Subdomain)
                 => r1 = r2
       /\ Registers =>
             /\ resp'.status = 201 =>
                   \E g \in Generated :
                       /\ resp'.body = RegResponse(NewACMETxt(g[1], g[2], g[3]))
                       /\ Fresh(g, records)
             /\ resp'.status # 201 => (records' = records /\ txt' = txt)]_vars

\* a registration has failed on a store that holds both identities and both
\* subdomains, so that whatever was generated collided
UniqueCredentialsWitness ==
    /\ Served("/register")
    /\ req.Method = "POST"
    /\ req.Body = RegBody.NetA
    /\ resp.status = 500
    /\ Cardinality(snap.records) = 2
    /\ records = snap.records
    /\ txt = snap.txt

(***************************************************************************)
(* The order of the steps of the auth gate.                                *)
(***************************************************************************)
\* the states of the gate before its verdict, in order
GateOrder ==
    <<"ReceiveHeaders", "ResolveIdentity", "CheckNetwork", "ParseBody",
      "CheckSubdomainMatch">>

GateVerdicts == {"Authorized", "Rejected"}

\* C30: within one /update request the gate resolves the identity and
\* verifies the secret, then checks the network permission, then decodes the
\* body, then compares the subdomains, in this order only; the body is read
\* only if identity, secret and network checks have all passed; the gate
\* reaches Authorized only through every earlier state, and every request
\* ends in exactly one of Authorized and Rejected.
GateOrdering ==
    /\ hpc = "auth" => gate = <<"ReceiveHeaders">>
    /\ (AuthDone /\ req.Path = "/update") =>
          LET n == Len(gate)
          IN  /\ n >= 2
              /\ gate[n] \in GateVerdicts
              /\ SubSeq(gate, 1, n - 1) = SubSeq(GateOrder, 1, n - 1)
              /\ (\E i \in 1..n : gate[i] = "ParseBody") =>
                    \E u \in records :
                        /\ u.Username = req.XApiUser
                        /\ CorrectPassword(req.XApiKey, u.Password)
                        /\ updateAllowedFromIP(useHeader, req, u)
              /\ gate[n] = "Authorized" <=> Invoked
              /\ gate[n] = "Rejected" <=> Rejected
              /\ gate[n] = "Authorized" => n = Len(GateOrder) + 1

\* a request with the credentials of an identity and a body that names its
\* subdomain has been rejected at the network check, the body not read
GateOrderingWitness ==
    /\ Rejected
    /\ req.XApiUser = "u2"
    /\ req.XApiKey = "k2"
    /\ req.Body = PostBody.S2
    /\ gate = <<"ReceiveHeaders", "ResolveIdentity", "CheckNetwork", "Rejected">>

(***************************************************************************)
(* Properties of the middleware and the handler on bodies that do not      *)
(* decode.                                                                 *)
(***************************************************************************)
\* the middleware has decoded the body of the request
BodyParsed == hpc \in {"handler", "done"} /\ gate[Len(gate) - 2] = "ParseBody"

\* the subdomain of the identity the headers of the request name
SubdomainOf(r) ==
    {u.Subdomain : u \in {x \in records : x.Username = r.XApiUser}}

\* C31: once the middleware has decoded the body and the decoding failed,
\* the request passes exactly when the subdomain that was decoded (possibly
\* from a body decoded in part) is the subdomain of the identity; a POST
\* whose subdomain matches and whose txt is of the wrong type passes and is
\* answered 400 by the handler, never 401.
DecodeFailureDoesNotReject ==
    /\ (BodyParsed /\ Decode(req.Body).err # None) =>
          (why = None <=>
              Decode(req.Body).post.Subdomain \in SubdomainOf(req))
    /\ (BodyParsed /\ hpc = "done" /\ req.Method = "POST"
            /\ req.Body = PostBody.Typed /\ "s1" \in SubdomainOf(req)) =>
          /\ why = None
          /\ resp.status = StatusBadRequest
          /\ resp.body = "{\"error\": \"bad_txt\"}"

\* a POST of u1 with a txt of the wrong type has been answered 400 and one
\* of u2 with the same body 401
DecodeFailureWitness ==
    /\ BodyParsed
    /\ hpc = "done"
    /\ req.Body = PostBody.Typed
    /\ req.Method = "POST"
    /\ resp.status = StatusBadRequest
    /\ prevRej.cause = "subdomain_mismatch"

(***************************************************************************)
(* Properties of the list read from the forwarding header.                 *)
(***************************************************************************)
\* C32: the list getIPListFromHeader makes of a header holds no empty
\* string.
NoEmptyEntry ==
    aclOut.done => \A i \in DOMAIN aclOut.iplist : aclOut.iplist[i] # ""

(***************************************************************************)
(* Properties of the two tests DNSServer.answer makes on a name.           *)
(***************************************************************************)
\* the labels of s are the last labels of n
HasTrailingLabels(n, s) ==
    Len(s) <= Len(n) /\ SubSeq(n, Len(n) - Len(s) + 1, Len(n)) = s

\* C33: a standard query with one question is answered with the
\* authoritative flag set if and only if the name of the question, letter
\* case aside, is the server domain or the owner of static records or ends
\* with the labels of one of them; a TXT question is answered by the
\* own-challenge path (the server's own challenge value, the store not read)
\* if and only if its name, letter case aside, is
\* _acme-challenge.<server domain>.
AuthoritativeAndOwnChallenge ==
    [][\A n \in QueryNames, t \in Qtypes :
          (dnsQ = NoMsg /\ StandardQuery(dnsQ', n, t)) =>
             /\ dnsR'.Authoritative <=>
                   \E s \in ServedNames : HasTrailingLabels(ToLower(n), s)
             /\ t = "TXT" =>
                   ((dnsR'.reads = 0 /\ dnsR'.Answer = <<TXT(n, keyAuth)>>)
                       <=> ToLower(n) = <<"_acme-challenge">> \o Domain)]_vars

\* a TXT question for the own-challenge name in capitals has been answered
\* as authoritative, by its trailing labels, with the server's value
AuthoritativeAndOwnChallengeWitness ==
    /\ StandardQuery(dnsQ, <<"_ACME-Challenge", "Auth", "example", "org", "">>,
                     "TXT")
    /\ dnsR.Authoritative
    /\ dnsR.reads = 0
    /\ dnsR.Answer # <<>>
    /\ dnsR.Answer[1].Data = <<"keyauth1">>
    /\ records # {}

(***************************************************************************)
(* Properties of the TXT records made from the store.                      *)
(***************************************************************************)
\* the TXT records of an answer section, in their order
DynamicTXT(m) ==
    LET isTXT(rr) == rr.Rrtype = "TXT"
    IN  SelectSeq(m.Answer, isTXT)

\* the values that are not empty, in their order
NonEmptyValues(txts) ==
    LET nonEmpty(v) == v # ""
    IN  SelectSeq(txts, nonEmpty)

\* C34: a standard TXT query with one question whose name is not the
\* own-challenge name reads the store once; its answer holds at most two TXT
\* records, each of TTL 1, owned by the name asked for and with a text that
\* is not empty; and when the read does not fail they are, one for one and
\* in order, the values that are not empty among those the store returns for
\* the first label of the name in lower case.
OneTXTPerValue ==
    [][\A n \in QueryNames \ OwnChallengeNames :
          (dnsQ = NoMsg /\ StandardQuery(dnsQ', n, "TXT")) =>
             LET dyn == DynamicTXT(dnsR')
                 got == GetTXTForDomainQuery(txt, ToLowerLabel(n[1]), FALSE)
             IN  /\ dnsR'.reads = 1
                 /\ Len(dyn) <= 2
                 /\ \A i \in DOMAIN dyn :
                       /\ dyn[i].Ttl = 1
                       /\ dyn[i].Name = n
                       /\ Len(dyn[i].Data) = 1
                       /\ dyn[i].Data[1] # ""
                 /\ Answers =>
                       [i \in DOMAIN dyn |-> dyn[i].Data[1]]
                           = NonEmptyValues(got.txts)]_vars

\* a TXT query for a subdomain in capitals has got one TXT record while one
\* slot of the subdomain holds a value and the other is empty
OneTXTPerValueWitness ==
    /\ StandardQuery(dnsQ, <<"S1", "Auth", "example", "org", "">>, "TXT")
    /\ dnsR.reads = 1
    /\ Len(DynamicTXT(dnsR)) = 1
    /\ Cardinality(GetChallengeValues(txt, "s1")) = 1
    /\ \E i \in SlotRows(txt, "s1") : txt[i].Value = ""

(***************************************************************************)
(* Properties of the opcodes other than QUERY.                             *)
(***************************************************************************)
\* C35: a message whose opcode is not QUERY, without an OPT record or with
\* one of EDNS version 0, is answered with rcode success, empty answer and
\* authority sections and the authoritative flag unset; no question is
\* processed and the store is not read.
OtherOpcodeIsEmptySuccess ==
    [][(/\ dnsQ = NoMsg
        /\ dnsQ' # NoMsg
        /\ dnsQ'.Opcode # "QUERY"
        /\ dnsQ'.Extra # <<>> => dnsQ'.Extra[1].Version = 0) =>
          /\ dnsR'.Response
          /\ dnsR'.Opcode = dnsQ'.Opcode
          /\ dnsR'.Rcode = RcodeSuccess
          /\ dnsR'.Answer = <<>>
          /\ dnsR'.Ns = <<>>
          /\ ~dnsR'.Authoritative
          /\ dnsR'.reads = 0]_vars

\* a notify with EDNS version 0 that names a subdomain holding a value has
\* been answered without a record
OtherOpcodeWitness ==
    /\ dnsQ.Opcode = "NOTIFY"
    /\ dnsQ.Extra # <<>>
    /\ dnsQ.Extra[1].Version = 0
    /\ dnsQ.Question[1].Name = <<"s1", "auth", "example", "org", "">>
    /\ GetChallengeValues(txt, "s1") # {}
    /\ dnsR.Response
    /\ dnsR.Rcode = RcodeSuccess
    /\ dnsR.Answer = <<>>

(***************************************************************************)
(* Properties of the DNS server and the store under contention.            *)
(***************************************************************************)
\* C36: every message the DNS server takes is answered, and once: the
\* message in hand leaves only by the write of the response made for it;
\* an EDNS version other than 0, a name without zone data and a failed read
\* of the store are told by the response code of that response, which then
\* carries no TXT record; and the write happens eventually.
DNSAlwaysAnswered ==
    /\ [][(dnsQ # NoMsg /\ dnsQ' # dnsQ) =>
             /\ dnsQ' = NoMsg
             /\ dnsR.Response
             /\ dnsR.Opcode = dnsQ.Opcode
             /\ dnsR.Question = Take(dnsQ.Question, 1)]_vars
    /\ [][(dnsQ # NoMsg /\ dnsR = NoMsg /\ dnsR' # NoMsg) =>
             /\ dnsR'.Response
             /\ dnsR'.Rcode \in {RcodeSuccess, RcodeNameError, RcodeBadVers}
             /\ (dnsQ.Extra # <<>> /\ dnsQ.Extra[1].Version # 0) =>
                   dnsR'.Rcode = RcodeBadVers /\ dnsR'.Answer = <<>>
             /\ StandardQuery(dnsQ, <<"www", "example", "com", "">>, "A") =>
                   dnsR'.Rcode = RcodeNameError /\ dnsR'.Answer = <<>>
             /\ (/\ dnsR'.reads > 0
                 /\ dnsR' = handleRequest(dnsQ, txt, keyAuth, TRUE)) =>
                   dnsR'.Rcode = RcodeNameError /\ dnsR'.Answer = <<>>]_vars
    /\ (dnsQ # NoMsg) ~> (dnsQ = NoMsg)

\* the response to a TXT question whose read of the store failed is in hand
\* with name error while the subdomain holds a value and a worker holds the
\* lock
DNSAlwaysAnsweredWitness ==
    /\ StandardQuery(dnsQ, <<"s1", "auth", "example", "org", "">>, "TXT")
    /\ dnsR.Response
    /\ dnsR.Rcode = RcodeNameError
    /\ GetChallengeValues(txt, "s1") # {}
    /\ mutex # None

\* C38: the store does not deadlock: the lock is held by a worker inside an
\* operation only, every return of an operation, the error returns
\* included, leaves the lock free, and every call that waits for the lock
\* gets it and returns.
StoreDeadlockFree ==
    /\ [](\A w \in Workers : mutex = w => pc[w] = "locked")
    /\ [][\A w \in Workers :
             (pc[w] = "locked" /\ pc'[w] # "locked") =>
                 /\ pc'[w] = "ret"
                 /\ mutex' = None]_vars
    /\ \A w \in Workers : (pc[w] = "lock") ~> (pc[w] = "ret")

\* a worker holds the lock while another has the error of its operation in
\* hand
StoreDeadlockFreeWitness ==
    \E w, v \in Workers :
        /\ pc[w] = "ret"
        /\ ret[w].err # None
        /\ pc[v] = "locked"
        /\ mutex = v

(***************************************************************************)
(* Properties of the update handler behind the middleware.                 *)
(***************************************************************************)
\* C37: the handler is reached only with the subdomain of the identity of
\* the request, which has the syntax of a label; no response is the 400
\* bad_subdomain of the handler; and a request whose body names a subdomain
\* that has not the syntax of a label is answered 401 forbidden.
BadSubdomainUnreachable ==
    /\ hpc = "handler" =>
          /\ validSubdomain(ctx.Subdomain)
          /\ ctx.Subdomain \in SubdomainOf(req)
    /\ hpc = "done" => resp.body # "{\"error\": \"bad_subdomain\"}"
    /\ (hpc = "done" /\ ~validSubdomain(Decode(req.Body).post.Subdomain)) =>
          /\ resp.status = StatusUnauthorized
          /\ resp.body = "{\"error\": \"forbidden\"}"

\* a POST of u1 with its key whose body names example.com has been rejected
\* at the comparison of the subdomains
BadSubdomainWitness ==
    /\ hpc = "done"
    /\ req.Method = "POST"
    /\ req.XApiUser = "u1"
    /\ req.Body = PostBody.ExampleCom
    /\ why = "subdomain_mismatch"
    /\ resp.status = StatusUnauthorized

(***************************************************************************)
(* Properties of what the DNS server shows of a subdomain over time.       *)
(***************************************************************************)
\* the number of slots of a subdomain that hold a value
NonEmptySlots(t, sub) ==
    Cardinality({i \in SlotRows(t, sub) : t[i].Value # ""})

\* the response in hand is that to a standard TXT query for s1 under the
\* server domain
TXTQueryOfS1 == \E n \in NamesOfS1 : StandardQuery(dnsQ, n, "TXT")

\* ... and it holds at least k TXT records
ReturnedAtLeast(k) == TXTQueryOfS1 /\ Len(DynamicTXT(dnsR)) >= k

\* C39 as stated: the number of slots holding a value never decreases, and
\* once a TXT query for the subdomain has returned k records every later
\* one returns at least k.
MonotonicVisibility ==
    /\ [][\A s \in SubPool : NonEmptySlots(txt', s) >= NonEmptySlots(txt, s)]_vars
    /\ \A k \in {1, 2} :
          [](ReturnedAtLeast(k) => [](TXTQueryOfS1 => ReturnedAtLeast(k)))

\* C39: the number of slots holding a value never decreases; a TXT query
\* for the subdomain whose read of the store does not fail returns as many
\* records as slots hold a value, and one whose read fails returns none; so
\* once a query has returned k records every later one returns at least k
\* or, its read having failed, none.
MonotonicVisibilityOfReads ==
    /\ [][\A s \in SubPool : NonEmptySlots(txt', s) >= NonEmptySlots(txt, s)]_vars
    /\ [][(dnsQ = NoMsg /\ \E n \in NamesOfS1 : StandardQuery(dnsQ', n, "TXT")) =>
             Len(DynamicTXT(dnsR')) =
                 IF Answers THEN NonEmptySlots(txt, "s1") ELSE 0]_vars
    /\ \A k \in {1, 2} :
          [](ReturnedAtLeast(k) =>
                [](TXTQueryOfS1 =>
                      ReturnedAtLeast(k) \/ Len(DynamicTXT(dnsR)) = 0))

\* a TXT query for s1 is answered without a record, its read having failed,
\* while both slots of s1 hold a value
MonotonicVisibilityWitness ==
    /\ TXTQueryOfS1
    /\ NonEmptySlots(txt, "s1") = 2
    /\ dnsR.reads = 1
    /\ DynamicTXT(dnsR) = <<>>
    /\ dnsR = handleRequest(dnsQ, txt, keyAuth, TRUE)

(***************************************************************************)
(* Properties of the names whose queries are served from the store.        *)
(***************************************************************************)
\* C40: a TXT record of an answer carries a challenge value of a registered
\* subdomain only when the first label of the name asked for is that
\* subdomain, letter case aside.
LabelExactServing ==
    [][\A n \in QueryNames, s \in SubPool :
          (dnsQ = NoMsg /\ StandardQuery(dnsQ', n, "TXT")
              /\ \E i \in DOMAIN DynamicTXT(dnsR') :
                    DynamicTXT(dnsR')[i].Data[1] \in GetChallengeValues(txt, s))
             => ToLowerLabel(n[1]) = s]_vars

====
